---- MODULE Spec2Model ----
(***************************************************************************)
(* Test-orchestration framework of isolation-sphere:                       *)
(*   BaseTest   (components/test_framework/src/base_test.cpp)              *)
(*   TestManager(components/test_framework/src/test_manager.cpp)           *)
(* The Manager is driven by one thread.  The virtual hooks setup(),        *)
(* teardown() and the step actions are calls into code outside the core;   *)
(* the model stops at each such call (pc) and resumes with the value the   *)
(* call returns.  Everything the core does between two such calls is one   *)
(* action.                                                                 *)
(***************************************************************************)
EXTENDS Integers, Sequences, FiniteSets, TLC

\* ---------------------------------------------------------------- bounds
MaxTests == 3
MaxExec == 3
MaxSteps == 3
MaxApplied == 3
MaxTicks == 3

\* ------------------------------------------------------------ value sets
TestResult == {"NOT_RUN", "RUNNING", "PASSED", "FAILED", "SKIPPED", "TIMEOUT"}

\* esp_err_t values a hook or a step action may return
HookResults == {"ESP_OK", "ESP_FAIL"}
StepResults == {"ESP_OK", "ESP_FAIL", "ESP_ERR_TIMEOUT"}

\* TestStep: the fields runSteps()/executeStep() read.  bound is whether
\* the std::function `execute` holds a target.
\* timeout_ms of a step: the default of addStep() and 0
Timeouts == {5000, 0}

TestStep == [critical : BOOLEAN, bound : BOOLEAN, timeout_ms : Timeouts]

CritStep == [critical |-> TRUE, bound |-> TRUE, timeout_ms |-> 5000]
NonCritStep == [critical |-> FALSE, bound |-> TRUE, timeout_ms |-> 5000]

\* Names are sequences of character codes: "Ab" and "b".
Names == {<<65, 98>>, <<98>>}

\* The concrete tests: a name and the step list its setup() appends with
\* addStep().
TestClasses ==
    {[name |-> <<65, 98>>, tmpl |-> <<CritStep>>],
     [name |-> <<98>>, tmpl |-> <<NonCritStep, CritStep>>]}

\* Patterns: "*", "a", "z".
Patterns == {<<42>>, <<97>>, <<122>>}

VARIABLES
    tests_,                  \* TestManager::tests_ with each BaseTest's fields
    stop_on_first_failure_,  \* TestManager::stop_on_first_failure_
    parallel_execution_,     \* TestManager::parallel_execution_
    test_timeout_ms_,        \* TestManager::test_timeout_ms_
    overall_result_,         \* TestManager::overall_result_
    pc,                      \* where the Manager thread is
    mode,                    \* run mode in progress / last returned
    queue,                   \* the sequence the run mode iterates (indices into tests_)
    idx,                     \* position of the loop in queue
    all_passed,              \* local all_passed of the batch modes
    cur,                     \* index of the test whose run() is active
    step_i,                  \* index of the step whose action is active
    ret,                     \* value returned by the last run mode (valid when pc = "done")
    runs,                    \* run-mode invocations so far: 0, 1, or 2 for more
    execs,                   \* number of run() calls the run modes so far had to make
    executed,                \* tests on which run() was invoked by this run mode, in order
    returned,                \* the values those run() calls returned
    calls,                   \* what the active run() has called so far, in order
    rets,                    \* what the hooks of the active run() returned
    last_run,                \* the latest run() that returned: its test, calls, rets, value
    invoked,                 \* step actions invoked by the current runSteps(): [i, r]
    steps_ret,               \* value returned by the current runSteps(), "none" before
    applied,                 \* results handed to updateOverallResult() in this batch
    arg,                     \* the name or pattern the run mode was called with
    query,                   \* the latest query and the value it returned
    tick,                    \* xTaskGetTickCount(), 32 bits
    portTICK_PERIOD_MS,      \* milliseconds per tick of the build
    stopwatch,               \* ticks that passed from startTimer() to stopTimer(), and after
    twin,                    \* a second Manager, as a record of these variables, or "none"
    wifi,                    \* wifi_manager.c, the WiFi station and the caller of wifi_manager_*
    ros,                     \* ros2_manager.c, its tasks, its timer and the caller of ros2_manager_*
    wait,                    \* the wait loop a step of ROS2Test or WiFiTest is in, and its clock
    callbacks                \* the objects of one concrete test class and the static instance_ pointer

vars == <<tests_, stop_on_first_failure_, parallel_execution_, test_timeout_ms_,
          overall_result_, pc, mode, queue, idx,
          all_passed, cur, step_i, ret, runs, execs, executed, returned, calls, rets,
          last_run, invoked, steps_ret, applied, arg, query, tick,
          portTICK_PERIOD_MS, stopwatch, twin,
          wifi,
          ros,
          wait,
          callbacks>>

\* The state as one record, so that the continuation of a handler can be
\* computed as a function of the state.
St ==
    [tests_ |-> tests_, stop_on_first_failure_ |-> stop_on_first_failure_,
     parallel_execution_ |-> parallel_execution_,
     test_timeout_ms_ |-> test_timeout_ms_,
     overall_result_ |-> overall_result_, pc |-> pc, mode |-> mode,
     queue |-> queue, idx |-> idx, all_passed |-> all_passed, cur |-> cur,
     step_i |-> step_i, ret |-> ret, runs |-> runs, execs |-> execs,
     executed |-> executed,
     returned |-> returned, calls |-> calls, rets |-> rets,
     last_run |-> last_run, invoked |-> invoked, steps_ret |-> steps_ret,
     applied |-> applied, arg |-> arg, query |-> query, tick |-> tick,
     portTICK_PERIOD_MS |-> portTICK_PERIOD_MS, stopwatch |-> stopwatch,
     twin |-> twin,
     wifi |-> wifi,
     ros |-> ros,
     wait |-> wait,
     callbacks |-> callbacks]

Commit(s) ==
    /\ tests_' = s.tests_
    /\ stop_on_first_failure_' = s.stop_on_first_failure_
    /\ parallel_execution_' = s.parallel_execution_
    /\ test_timeout_ms_' = s.test_timeout_ms_
    /\ overall_result_' = s.overall_result_
    /\ pc' = s.pc
    /\ mode' = s.mode
    /\ queue' = s.queue
    /\ idx' = s.idx
    /\ all_passed' = s.all_passed
    /\ cur' = s.cur
    /\ step_i' = s.step_i
    /\ ret' = s.ret
    /\ runs' = s.runs
    /\ execs' = s.execs
    /\ executed' = s.executed
    /\ returned' = s.returned
    /\ calls' = s.calls
    /\ rets' = s.rets
    /\ last_run' = s.last_run
    /\ invoked' = s.invoked
    /\ steps_ret' = s.steps_ret
    /\ applied' = s.applied
    /\ arg' = s.arg
    /\ query' = s.query
    /\ tick' = s.tick
    /\ portTICK_PERIOD_MS' = s.portTICK_PERIOD_MS
    /\ stopwatch' = s.stopwatch
    /\ twin' = s.twin
    /\ wifi' = s.wifi
    /\ ros' = s.ros
    /\ wait' = s.wait
    /\ callbacks' = s.callbacks

Start(s) ==
    /\ tests_ = s.tests_
    /\ stop_on_first_failure_ = s.stop_on_first_failure_
    /\ parallel_execution_ = s.parallel_execution_
    /\ test_timeout_ms_ = s.test_timeout_ms_
    /\ overall_result_ = s.overall_result_
    /\ pc = s.pc
    /\ mode = s.mode
    /\ queue = s.queue
    /\ idx = s.idx
    /\ all_passed = s.all_passed
    /\ cur = s.cur
    /\ step_i = s.step_i
    /\ ret = s.ret
    /\ runs = s.runs
    /\ execs = s.execs
    /\ executed = s.executed
    /\ returned = s.returned
    /\ calls = s.calls
    /\ rets = s.rets
    /\ last_run = s.last_run
    /\ invoked = s.invoked
    /\ steps_ret = s.steps_ret
    /\ applied = s.applied
    /\ arg = s.arg
    /\ query = s.query
    /\ tick = s.tick
    /\ portTICK_PERIOD_MS = s.portTICK_PERIOD_MS
    /\ stopwatch = s.stopwatch
    /\ twin = s.twin
    /\ wifi = s.wifi
    /\ ros = s.ros
    /\ wait = s.wait
    /\ callbacks = s.callbacks

\* ------------------------------------------------------- uint32_t values
\* A uint32_t is kept as its two 16-bit halves, value = hi * 2^16 + lo, so
\* that the arithmetic wraps at 2^32 as in the build.

Half == 2^16

Zero32 == [hi |-> 0, lo |-> 0]

\* n as a uint32_t, for 0 <= n < 2^31
ToU32(n) == [hi |-> n \div Half, lo |-> n % Half]

\* a + b in uint32_t
U32Add(a, b) ==
    [hi |-> (a.hi + b.hi + ((a.lo + b.lo) \div Half)) % Half,
     lo |-> (a.lo + b.lo) % Half]

\* a - b in uint32_t
U32Sub(a, b) ==
    LET borrow == IF a.lo < b.lo THEN 1 ELSE 0
    IN  [hi |-> (a.hi - b.hi - borrow + Half) % Half,
         lo |-> (a.lo - b.lo + Half) % Half]

\* a * m in uint32_t, for a small m
U32Mul(a, m) ==
    [hi |-> (a.hi * m + ((a.lo * m) \div Half)) % Half,
     lo |-> (a.lo * m) % Half]

NoQuery == [op |-> "none", value |-> "none"]

NoStopwatch == [running |-> FALSE, ticks |-> 0, after |-> 0]

\* ------------------------------------------------------------- BaseTest

NoRets == [setup |-> "none", execute |-> "none", teardown |-> "none"]

NoRun == [test |-> 0, calls |-> << >>, rets |-> NoRets, value |-> "none"]

\* BaseTest::BaseTest
NewTest(name, tmpl) ==
    [name |-> name, tmpl |-> tmpl,
     status_ |-> [result |-> "NOT_RUN", message |-> "", duration_ms |-> Zero32,
                  start_time |-> Zero32, error_code |-> "ESP_OK"],
     test_steps_ |-> << >>]

\* BaseTest::updateStatus
updateStatus(st, result, message) ==
    [result |-> result,
     message |-> message,
     duration_ms |-> st.duration_ms,
     start_time |-> st.start_time,
     error_code |->
        IF result # "RUNNING" /\ result # "NOT_RUN"
        THEN (IF result = "FAILED" THEN "ESP_FAIL" ELSE "ESP_OK")
        ELSE st.error_code]

\* BaseTest::addStep, for each step of a list
addSteps(steps, tmpl) == steps \o tmpl

\* xTaskGetTickCount() * portTICK_PERIOD_MS
Reading(s) == U32Mul(s.tick, s.portTICK_PERIOD_MS)

\* BaseTest::startTimer of the running test
startTimer(s) ==
    [s EXCEPT
        !.tests_[s.cur].status_.start_time = Reading(s),
        !.stopwatch = [running |-> TRUE, ticks |-> 0, after |-> 0],
        !.calls = Append(@, "startTimer")]

\* stopTimer taking a reading below start_time for no time at all
stopTimer_clamped(s) ==
    LET current_time == Reading(s)
        start == s.tests_[s.cur].status_.start_time
        below == current_time.hi < start.hi
                 \/ (current_time.hi = start.hi /\ current_time.lo < start.lo)
    IN  [s EXCEPT
            !.tests_[s.cur].status_.duration_ms =
                IF below THEN Zero32 ELSE U32Sub(current_time, start),
            !.stopwatch.running = FALSE,
            !.calls = Append(@, "stopTimer")]

\* BaseTest::stopTimer of the running test
stopTimer(s) ==
    LET current_time == Reading(s)
    IN  [s EXCEPT
            !.tests_[s.cur].status_.duration_ms =
                U32Sub(current_time, s.tests_[s.cur].status_.start_time),
            !.stopwatch.running = FALSE,
            !.calls = Append(@, "stopTimer")]

\* updateOverallResult with TIMEOUT recorded whatever was recorded before
updateOverallResult_overwrite(overall, test_result) ==
    IF test_result = "FAILED" THEN "FAILED"
    ELSE IF test_result = "TIMEOUT" THEN "TIMEOUT"
    ELSE overall

\* TestManager::updateOverallResult
updateOverallResult(overall, test_result) ==
    IF test_result = "FAILED" THEN "FAILED"
    ELSE IF test_result = "TIMEOUT" /\ overall # "FAILED" THEN "TIMEOUT"
    ELSE overall

\* BaseTest_run leaving the status as it is until the run() has an outcome
BaseTest_run_noRunning(s, i) ==
    LET s1 == startTimer(
                [s EXCEPT
                    !.calls = <<"updateStatus">>,
                    !.rets = NoRets,
                    !.invoked = << >>,
                    !.steps_ret = "none",
                    !.cur = i,
                    !.executed = Append(@, i)])
    IN  [s1 EXCEPT !.calls = Append(@, "setup"), !.pc = "setup"]

\* BaseTest::run up to the call of setup()
BaseTest_run(s, i) ==
    LET s1 == startTimer(
                [s EXCEPT
                    !.tests_[i].status_ =
                        updateStatus(@, "RUNNING", "Test execution started"),
                    !.calls = <<"updateStatus">>,
                    !.rets = NoRets,
                    !.invoked = << >>,
                    !.steps_ret = "none",
                    !.cur = i,
                    !.executed = Append(@, i)])
    IN  [s1 EXCEPT !.calls = Append(@, "setup"), !.pc = "setup"]

\* AfterExecuteTest with the batch loop never breaking
AfterExecuteTest_noBreak(s, res) ==
    LET test_passed == (res = "PASSED")
        s1 == [s EXCEPT !.returned = Append(@, res),
                        !.last_run = [test |-> s.cur, calls |-> s.calls,
                                      rets |-> s.rets,
                                      value |-> res],
                        !.calls = << >>, !.rets = NoRets,
                        !.invoked = << >>, !.steps_ret = "none"]
    IN  IF s.mode = "one"
        THEN [s1 EXCEPT !.ret = test_passed, !.pc = "done"]
        ELSE LET s2 == IF test_passed THEN s1
                       ELSE [s1 EXCEPT
                               !.all_passed = FALSE,
                               !.overall_result_ =
                                   updateOverallResult(@, s1.tests_[s.cur].status_.result),
                               !.applied = Append(@, s1.tests_[s.cur].status_.result)]
             IN  IF s.idx = Len(s.queue)
                 THEN [s2 EXCEPT !.ret = s2.all_passed, !.pc = "done"]
                 ELSE BaseTest_run([s2 EXCEPT !.idx = s.idx + 1], s.queue[s.idx + 1])

\* AfterExecuteTest with the batch loop breaking on any failure
AfterExecuteTest_alwaysBreak(s, res) ==
    LET test_passed == (res = "PASSED")
        s1 == [s EXCEPT !.returned = Append(@, res),
                        !.last_run = [test |-> s.cur, calls |-> s.calls,
                                      rets |-> s.rets,
                                      value |-> res],
                        !.calls = << >>, !.rets = NoRets,
                        !.invoked = << >>, !.steps_ret = "none"]
    IN  IF s.mode = "one"
        THEN [s1 EXCEPT !.ret = test_passed, !.pc = "done"]
        ELSE LET s2 == IF test_passed THEN s1
                       ELSE [s1 EXCEPT
                               !.all_passed = FALSE,
                               !.overall_result_ =
                                   updateOverallResult(@, s1.tests_[s.cur].status_.result),
                               !.applied = Append(@, s1.tests_[s.cur].status_.result)]
             IN  IF ~test_passed \/ s.idx = Len(s.queue)
                 THEN [s2 EXCEPT !.ret = s2.all_passed, !.pc = "done"]
                 ELSE BaseTest_run([s2 EXCEPT !.idx = s.idx + 1], s.queue[s.idx + 1])

\* TestManager::executeTest after run() returned res, and the rest of the
\* caller's loop body: runTest returns; the batch modes update all_passed
\* and overall_result_, then break, finish or run the next test.
AfterExecuteTest(s, res) ==
    LET test_passed == (res = "PASSED")
        s1 == [s EXCEPT !.returned = Append(@, res),
                        !.last_run = [test |-> s.cur, calls |-> s.calls,
                                      rets |-> s.rets,
                                      value |-> res],
                        !.calls = << >>, !.rets = NoRets,
                        !.invoked = << >>, !.steps_ret = "none"]
    IN  IF s.mode = "one"
        THEN [s1 EXCEPT !.ret = test_passed, !.pc = "done"]
        ELSE LET s2 == IF test_passed THEN s1
                       ELSE [s1 EXCEPT
                               !.all_passed = FALSE,
                               !.overall_result_ =
                                   updateOverallResult(@, s1.tests_[s.cur].status_.result),
                               !.applied = Append(@, s1.tests_[s.cur].status_.result)]
             IN  IF (~test_passed /\ s.stop_on_first_failure_) \/ s.idx = Len(s.queue)
                 THEN [s2 EXCEPT !.ret = s2.all_passed, !.pc = "done"]
                 ELSE BaseTest_run([s2 EXCEPT !.idx = s.idx + 1], s.queue[s.idx + 1])

\* run_afterTeardown with the outcome of teardown() not looked at
run_afterTeardown_unchecked(s, r) ==
    LET i == s.cur
        s1 == [s EXCEPT !.rets.teardown = r]
    IN  IF s.rets.execute # "ESP_OK"
        THEN AfterExecuteTest(s1, "FAILED")
        ELSE AfterExecuteTest(
                [stopTimer(s1) EXCEPT
                    !.tests_[i].status_ = updateStatus(@, "PASSED", "Test completed successfully"),
                    !.calls = @ \o <<"updateStatus">>],
                "PASSED")

\* run_afterTeardown with the outcome of teardown() looked at on both paths
run_afterTeardown_checkedAlways(s, r) ==
    LET i == s.cur
        s1 == [s EXCEPT !.rets.teardown = r]
    IN  IF r # "ESP_OK"
        THEN AfterExecuteTest(
                [stopTimer(s1) EXCEPT
                    !.tests_[i].status_ = updateStatus(@, "FAILED", "Teardown phase failed"),
                    !.calls = @ \o <<"updateStatus">>],
                "FAILED")
        ELSE IF s.rets.execute # "ESP_OK"
        THEN AfterExecuteTest(s1, "FAILED")
        ELSE AfterExecuteTest(
                [stopTimer(s1) EXCEPT
                    !.tests_[i].status_ = updateStatus(@, "PASSED", "Test completed successfully"),
                    !.calls = @ \o <<"updateStatus">>],
                "PASSED")

\* BaseTest::run after teardown() returned r
run_afterTeardown(s, r) ==
    LET i == s.cur
        s1 == [s EXCEPT !.rets.teardown = r]
    IN  IF s.rets.execute # "ESP_OK"
        THEN AfterExecuteTest(s1, "FAILED")
        ELSE IF r # "ESP_OK"
        THEN AfterExecuteTest(
                [stopTimer(s1) EXCEPT
                    !.tests_[i].status_ = updateStatus(@, "FAILED", "Teardown phase failed"),
                    !.calls = @ \o <<"updateStatus">>],
                "FAILED")
        ELSE AfterExecuteTest(
                [stopTimer(s1) EXCEPT
                    !.tests_[i].status_ = updateStatus(@, "PASSED", "Test completed successfully"),
                    !.calls = @ \o <<"updateStatus">>],
                "PASSED")

\* run_afterExecute returning at once when execute() failed
run_afterExecute_noTeardown(s, r) ==
    LET i == s.cur
        s1 == [s EXCEPT !.rets.execute = r, !.steps_ret = r]
    IN  IF r # "ESP_OK"
        THEN AfterExecuteTest(
                [stopTimer(s1) EXCEPT
                    !.tests_[i].status_ = updateStatus(@, "FAILED", "Execute phase failed"),
                    !.calls = @ \o <<"updateStatus">>],
                "FAILED")
        ELSE [s1 EXCEPT !.pc = "teardown", !.calls = @ \o <<"teardown">>]

\* run_afterExecute writing the FAILED status before it stops the timer
run_afterExecute_statusFirst(s, r) ==
    LET i == s.cur
        s1 == [s EXCEPT !.rets.execute = r, !.steps_ret = r,
                        !.pc = "teardown"]
    IN  IF r # "ESP_OK"
        THEN [stopTimer([s1 EXCEPT
                            !.tests_[i].status_ =
                                updateStatus(@, "FAILED", "Execute phase failed"),
                            !.calls = @ \o <<"updateStatus">>])
                EXCEPT !.calls = @ \o <<"teardown">>]
        ELSE [s1 EXCEPT !.calls = @ \o <<"teardown">>]

\* run_afterExecute going on to teardown() as if execute() had succeeded
run_afterExecute_ignoreFailure(s, r) ==
    [s EXCEPT !.rets.execute = "ESP_OK", !.steps_ret = r, !.pc = "teardown",
              !.calls = @ \o <<"teardown">>]

\* BaseTest::run after execute() returned r, up to the call of teardown()
run_afterExecute(s, r) ==
    LET i == s.cur
        s1 == [s EXCEPT !.rets.execute = r, !.steps_ret = r,
                        !.pc = "teardown"]
    IN  IF r # "ESP_OK"
        THEN [stopTimer(s1) EXCEPT
                !.tests_[i].status_ = updateStatus(@, "FAILED", "Execute phase failed"),
                !.calls = @ \o <<"updateStatus", "teardown">>]
        ELSE [s1 EXCEPT !.calls = @ \o <<"teardown">>]

RECURSIVE runSteps_from(_, _)

\* runSteps_stepFailed going on after any failure
runSteps_stepFailed_goOn(s, k, r) == runSteps_from(s, k + 1)

\* runSteps_stepFailed returning on any failure
runSteps_stepFailed_return(s, k, r) == run_afterExecute(s, r)

\* BaseTest::runSteps after step k failed with r
runSteps_stepFailed(s, k, r) ==
    IF s.tests_[s.cur].test_steps_[k].critical
    THEN run_afterExecute(s, r)
    ELSE runSteps_from(s, k + 1)

\* BaseTest::runSteps after the action of step k returned r
runSteps_afterStep(s, k, r) ==
    IF r # "ESP_OK"
    THEN runSteps_stepFailed(s, k, r)
    ELSE runSteps_from(s, k + 1)

\* runSteps_from giving a step with timeout_ms = 0 no time to run
runSteps_from_enforceTimeout(s, k) ==
    LET steps == s.tests_[s.cur].test_steps_
    IN  IF k > Len(steps)
        THEN run_afterExecute(s, "ESP_OK")
        ELSE IF ~steps[k].bound
        THEN runSteps_afterStep(s, k, "ESP_ERR_INVALID_ARG")
        ELSE IF steps[k].timeout_ms = 0
        THEN runSteps_afterStep(s, k, "ESP_ERR_TIMEOUT")
        ELSE [s EXCEPT !.pc = "step", !.step_i = k]

\* runSteps_from passing over a step that has no action as if it had succeeded
runSteps_from_skipUnbound(s, k) ==
    LET steps == s.tests_[s.cur].test_steps_
    IN  IF k > Len(steps)
        THEN run_afterExecute(s, "ESP_OK")
        ELSE IF ~steps[k].bound
        THEN runSteps_from(s, k + 1)
        ELSE [s EXCEPT !.pc = "step", !.step_i = k]

\* BaseTest::runSteps from step k on, with BaseTest::executeStep: up to the
\* call of the next bound action, or to the return of runSteps(), whose
\* value the concrete execute() returns.
runSteps_from(s, k) ==
    LET steps == s.tests_[s.cur].test_steps_
    IN  IF k > Len(steps)
        THEN run_afterExecute(s, "ESP_OK")
        ELSE IF ~steps[k].bound
        THEN runSteps_afterStep(s, k, "ESP_ERR_INVALID_ARG")
        ELSE [s EXCEPT !.pc = "step", !.step_i = k]

\* BaseTest::executeStep of the current step: its action returned r
executeStep_returned(s, r) ==
    runSteps_afterStep(
        [s EXCEPT !.invoked = Append(@, [i |-> s.step_i, r |-> r])],
        s.step_i, r)

\* The concrete execute(): calls runSteps()
execute(s) ==
    runSteps_from([s EXCEPT !.invoked = << >>, !.steps_ret = "none",
                            !.calls = @ \o <<"execute">>], 1)

\* run_afterSetup cleaning up after a failed setup() as after a failed execute()
run_afterSetup_teardown(s, r) ==
    LET i == s.cur
        s1 == [s EXCEPT !.rets.setup = r]
    IN  IF r # "ESP_OK"
        THEN [stopTimer(s1) EXCEPT
                !.tests_[i].status_ = updateStatus(@, "FAILED", "Setup phase failed"),
                !.calls = @ \o <<"updateStatus", "teardown">>,
                !.pc = "teardown"]
        ELSE execute([s1 EXCEPT
                        !.tests_[i].test_steps_ = addSteps(@, s.tests_[i].tmpl)])

\* run_afterSetup calling a setup() that failed a second time
run_afterSetup_retry(s, r) ==
    LET i == s.cur
        s1 == [s EXCEPT !.rets.setup = r]
    IN  IF r # "ESP_OK" /\ Len(SelectSeq(s.calls, LAMBDA c : c = "setup")) < 2
        THEN [s1 EXCEPT !.calls = Append(@, "setup"), !.pc = "setup"]
        ELSE IF r # "ESP_OK"
        THEN AfterExecuteTest(
                [stopTimer(s1) EXCEPT
                    !.tests_[i].status_ = updateStatus(@, "FAILED", "Setup phase failed"),
                    !.calls = @ \o <<"updateStatus">>],
                "FAILED")
        ELSE execute([s1 EXCEPT
                        !.tests_[i].test_steps_ = addSteps(@, s.tests_[i].tmpl)])

\* run_afterSetup with a setup() that clears the steps before it adds its own
run_afterSetup_clearing(s, r) ==
    LET i == s.cur
        s1 == [s EXCEPT !.rets.setup = r]
    IN  IF r # "ESP_OK"
        THEN AfterExecuteTest(
                [stopTimer(s1) EXCEPT
                    !.tests_[i].status_ = updateStatus(@, "FAILED", "Setup phase failed"),
                    !.calls = @ \o <<"updateStatus">>],
                "FAILED")
        ELSE execute([s1 EXCEPT
                        !.tests_[i].test_steps_ = addSteps(<< >>, s.tests_[i].tmpl)])

\* BaseTest::run after setup() returned r.  A concrete setup() that
\* succeeds has appended its steps.
run_afterSetup(s, r) ==
    LET i == s.cur
        s1 == [s EXCEPT !.rets.setup = r]
    IN  IF r # "ESP_OK"
        THEN AfterExecuteTest(
                [stopTimer(s1) EXCEPT
                    !.tests_[i].status_ = updateStatus(@, "FAILED", "Setup phase failed"),
                    !.calls = @ \o <<"updateStatus">>],
                "FAILED")
        ELSE execute([s1 EXCEPT
                        !.tests_[i].test_steps_ = addSteps(@, s.tests_[i].tmpl)])

\* ---------------------------------------------------------- TestManager

\* ::tolower on one character code
tolower(c) == IF c >= 65 /\ c <= 90 THEN c + 32 ELSE c

Lower(str) == [k \in 1..Len(str) |-> tolower(str[k])]

\* std::string::find(p) != npos
Found(text, p) ==
    \E off \in 0..(Len(text) - Len(p)) :
        \A k \in 1..Len(p) : text[off + k] = p[k]

\* matchesPattern comparing the characters as they are
matchesPattern_caseSensitive(text, pattern) ==
    IF pattern = <<42>> THEN TRUE
    ELSE Found(text, pattern)

\* TestManager::matchesPattern
matchesPattern(text, pattern) ==
    IF pattern = <<42>> THEN TRUE
    ELSE Found(Lower(text), Lower(pattern))

\* The indices k, k+1, ... of flags, in order, at which flags is TRUE
RECURSIVE SelectIdx(_, _)
SelectIdx(flags, k) ==
    IF k > Len(flags) THEN << >>
    ELSE (IF flags[k] THEN <<k>> ELSE << >>) \o SelectIdx(flags, k + 1)

\* getOverallResult looking for a TIMEOUT before it looks for a FAILED
getOverallResult_timeoutFirst(ts) ==
    IF Len(ts) = 0 THEN "NOT_RUN"
    ELSE LET has_failures == \E k \in 1..Len(ts) : ts[k].status_.result = "FAILED"
             has_timeouts == \E k \in 1..Len(ts) : ts[k].status_.result = "TIMEOUT"
             all_passed_ == \A k \in 1..Len(ts) : ts[k].status_.result = "PASSED"
         IN  IF has_timeouts THEN "TIMEOUT"
             ELSE IF has_failures THEN "FAILED"
             ELSE IF all_passed_ THEN "PASSED"
             ELSE "SKIPPED"

\* TestManager::getOverallResult
getOverallResult(ts) ==
    IF Len(ts) = 0 THEN "NOT_RUN"
    ELSE LET has_failures == \E k \in 1..Len(ts) : ts[k].status_.result = "FAILED"
             has_timeouts == \E k \in 1..Len(ts) : ts[k].status_.result = "TIMEOUT"
             all_passed_ == \A k \in 1..Len(ts) : ts[k].status_.result = "PASSED"
         IN  IF has_failures THEN "FAILED"
             ELSE IF has_timeouts THEN "TIMEOUT"
             ELSE IF all_passed_ THEN "PASSED"
             ELSE "SKIPPED"

\* TestStatistics as its constructor leaves it.  success_rate is kept as
\* the exact quotient num / den that the float approximates.
NoStatistics ==
    [total_tests |-> 0, passed_tests |-> 0, failed_tests |-> 0,
     skipped_tests |-> 0, timeout_tests |-> 0, total_duration_ms |-> Zero32,
     success_rate |-> [num |-> 0, den |-> 1]]

\* getStatistics_count with a test that is RUNNING counted as failed
getStatistics_count_runningFailed(stats, result) ==
    IF result = "PASSED" THEN [stats EXCEPT !.passed_tests = @ + 1]
    ELSE IF result \in {"FAILED", "RUNNING"} THEN [stats EXCEPT !.failed_tests = @ + 1]
    ELSE IF result = "SKIPPED" THEN [stats EXCEPT !.skipped_tests = @ + 1]
    ELSE IF result = "TIMEOUT" THEN [stats EXCEPT !.timeout_tests = @ + 1]
    ELSE stats

\* the switch of TestManager::getStatistics
getStatistics_count(stats, result) ==
    IF result = "PASSED" THEN [stats EXCEPT !.passed_tests = @ + 1]
    ELSE IF result = "FAILED" THEN [stats EXCEPT !.failed_tests = @ + 1]
    ELSE IF result = "SKIPPED" THEN [stats EXCEPT !.skipped_tests = @ + 1]
    ELSE IF result = "TIMEOUT" THEN [stats EXCEPT !.timeout_tests = @ + 1]
    ELSE stats

\* the loop of TestManager::getStatistics from test k on
RECURSIVE getStatistics_loop(_, _, _)
getStatistics_loop(ts, k, stats) ==
    IF k > Len(ts) THEN stats
    ELSE getStatistics_loop(ts, k + 1,
            getStatistics_count(
                [stats EXCEPT !.total_duration_ms = U32Add(@, ts[k].status_.duration_ms)],
                ts[k].status_.result))

\* getStatistics with the rate taken over the tests that passed or failed
getStatistics_rateOfFinished(ts) ==
    LET stats == getStatistics_loop(ts, 1, [NoStatistics EXCEPT !.total_tests = Len(ts)])
    IN  IF stats.passed_tests + stats.failed_tests > 0
        THEN [stats EXCEPT !.success_rate =
                 [num |-> stats.passed_tests * 100,
                  den |-> stats.passed_tests + stats.failed_tests]]
        ELSE stats

\* TestManager::getStatistics
getStatistics(ts) ==
    LET stats == getStatistics_loop(ts, 1, [NoStatistics EXCEPT !.total_tests = Len(ts)])
    IN  IF stats.total_tests > 0
        THEN [stats EXCEPT !.success_rate =
                 [num |-> stats.passed_tests * 100, den |-> stats.total_tests]]
        ELSE stats

\* TestManager::getTestNames
getTestNames(ts) == [k \in 1..Len(ts) |-> ts[k].name]

\* TestManager::getTest: the index of the test returned, 0 for nullptr
getTest(ts, name) ==
    LET it == SelectIdx([k \in 1..Len(ts) |-> ts[k].name = name], 1)
    IN  IF it = << >> THEN 0 ELSE it[1]

\* TestManager::printTestResults: the lines it logs, one for each test
printTestResults(ts) ==
    [k \in 1..Len(ts) |->
        [name |-> ts[k].name,
         result |-> ts[k].status_.result,
         duration_ms |-> ts[k].status_.duration_ms,
         message |-> ts[k].status_.message]]

\* TestManager::printTestSummary: the figures it logs
printTestSummary(ts) ==
    [stats |-> getStatistics(ts), overall |-> getOverallResult(ts)]

\* A run mode starts: the bookkeeping of the previous one is dropped.
Enter(s, m) ==
    [s EXCEPT !.mode = m, !.runs = IF @ = 0 THEN 1 ELSE 2, !.queue = << >>, !.idx = 0,
              !.executed = << >>, !.returned = << >>, !.applied = << >>,
              !.cur = 0, !.step_i = 0, !.last_run = NoRun, !.all_passed = TRUE,
              !.ret = FALSE, !.arg = << >>, !.query = NoQuery,
              !.stopwatch = NoStopwatch]

\* BatchLoop starting every test of q before it waits for the first
BatchLoop_startAll(s, q) ==
    BaseTest_run(
        [s EXCEPT
            !.overall_result_ = "PASSED", !.all_passed = TRUE,
            !.queue = q, !.idx = 1, !.execs = @ + Len(q),
            !.tests_ = [k \in 1..Len(s.tests_) |->
                IF \E j \in 1..Len(q) : q[j] = k
                THEN [s.tests_[k] EXCEPT
                        !.status_ = updateStatus(@, "RUNNING", "Test execution started")]
                ELSE s.tests_[k]]],
        q[1])

\* BatchLoop starting every test up front when parallel_execution_ is set
BatchLoop_parallel(s, q) ==
    IF s.parallel_execution_
    THEN BatchLoop_startAll(s, q)
    ELSE BaseTest_run([s EXCEPT !.overall_result_ = "PASSED", !.all_passed = TRUE,
                                !.queue = q, !.idx = 1, !.execs = @ + Len(q)], q[1])

\* The batch loop of runAllTests / runTestsMatching over q (not empty)
BatchLoop(s, q) ==
    BaseTest_run([s EXCEPT !.overall_result_ = "PASSED", !.all_passed = TRUE,
                           !.queue = q, !.idx = 1, !.execs = @ + Len(q)], q[1])

\* runAllTests treating the empty registry like a batch that passed
runAllTests_emptyPassed(s) ==
    LET s1 == Enter(s, "all")
    IN  IF Len(s.tests_) = 0
        THEN [s1 EXCEPT !.overall_result_ = "PASSED", !.ret = TRUE, !.pc = "done"]
        ELSE BatchLoop(s1, [k \in 1..Len(s.tests_) |-> k])

\* TestManager::runAllTests
runAllTests(s) ==
    LET s1 == Enter(s, "all")
    IN  IF Len(s.tests_) = 0
        THEN [s1 EXCEPT !.overall_result_ = "SKIPPED", !.ret = TRUE, !.pc = "done"]
        ELSE BatchLoop(s1, [k \in 1..Len(s.tests_) |-> k])

\* runTest looking the name up without regard to case
runTest_anyCase(s, test_name) ==
    LET s1 == [Enter(s, "one") EXCEPT !.arg = test_name]
        it == SelectIdx([k \in 1..Len(s.tests_) |->
                            Lower(s.tests_[k].name) = Lower(test_name)], 1)
    IN  IF it = << >>
        THEN [s1 EXCEPT !.ret = FALSE, !.pc = "done"]
        ELSE BaseTest_run([s1 EXCEPT !.queue = <<it[1]>>, !.idx = 1,
                                     !.execs = @ + 1], it[1])

\* runTest running the test registered last under the name
runTest_lastMatch(s, test_name) ==
    LET s1 == [Enter(s, "one") EXCEPT !.arg = test_name]
        it == SelectIdx([k \in 1..Len(s.tests_) |-> s.tests_[k].name = test_name], 1)
    IN  IF it = << >>
        THEN [s1 EXCEPT !.ret = FALSE, !.pc = "done"]
        ELSE BaseTest_run([s1 EXCEPT !.queue = <<it[Len(it)]>>, !.idx = 1,
                                     !.execs = @ + 1], it[Len(it)])

\* runTest assuming success at its start as the batch modes do
runTest_resetOverall(s, test_name) ==
    LET s1 == [Enter(s, "one") EXCEPT !.arg = test_name,
                                      !.overall_result_ = "PASSED"]
        it == SelectIdx([k \in 1..Len(s.tests_) |-> s.tests_[k].name = test_name], 1)
    IN  IF it = << >>
        THEN [s1 EXCEPT !.ret = FALSE, !.pc = "done"]
        ELSE BaseTest_run([s1 EXCEPT !.queue = <<it[1]>>, !.idx = 1,
                                     !.execs = @ + 1], it[1])

\* TestManager::runTest
runTest(s, test_name) ==
    LET s1 == [Enter(s, "one") EXCEPT !.arg = test_name]
        it == SelectIdx([k \in 1..Len(s.tests_) |-> s.tests_[k].name = test_name], 1)
    IN  IF it = << >>
        THEN [s1 EXCEPT !.ret = FALSE, !.pc = "done"]
        ELSE BaseTest_run([s1 EXCEPT !.queue = <<it[1]>>, !.idx = 1,
                                     !.execs = @ + 1], it[1])

\* runTestsMatching reporting an empty selection as a failure
runTestsMatching_emptyFalse(s, pattern) ==
    LET s1 == [Enter(s, "matching") EXCEPT !.arg = pattern]
        matching_tests ==
            SelectIdx([k \in 1..Len(s.tests_) |->
                          matchesPattern(s.tests_[k].name, pattern)], 1)
    IN  IF matching_tests = << >>
        THEN [s1 EXCEPT !.ret = FALSE, !.pc = "done"]
        ELSE BatchLoop(s1, matching_tests)

\* TestManager::runTestsMatching
runTestsMatching(s, pattern) ==
    LET s1 == [Enter(s, "matching") EXCEPT !.arg = pattern]
        matching_tests ==
            SelectIdx([k \in 1..Len(s.tests_) |->
                          matchesPattern(s.tests_[k].name, pattern)], 1)
    IN  IF matching_tests = << >>
        THEN [s1 EXCEPT !.ret = TRUE, !.pc = "done"]
        ELSE BatchLoop(s1, matching_tests)

\* ------------------------------------------------------- wifi_manager.c

\* the largest max_retry a connect call is made with
MaxRetry == 2

\* The statics of wifi_manager.c, the station of the WiFi driver and the
\* default event loop, and the caller of the wifi_manager_* functions.
\*   bits     the bits set in wifi_event_group
\*   sta      the station: "stopped", "idle", "connecting" or "connected"
\*   events   the events posted and not yet handled, oldest first
\*   call     "connect" while the caller is blocked in
\*            xEventGroupWaitBits(), else "none"
\*   op, ret  the latest wifi_manager_* call and what it returned
\* and for the properties
\*   ev                the event the latest step handled, else "none"
\*   esp_wifi_connect  the esp_wifi_connect() calls of the latest step
\*   got_ip, exhausted whether the handler set the connected bit / the
\*                     fail bit since the latest connect call began
\*   disconnected      a disconnect returned ESP_OK and no connect was
\*                     called since
NoWifi ==
    [wifi_manager_initialized |-> FALSE,
     current_status |-> "WIFI_STATUS_DISCONNECTED",
     max_retry |-> 0,
     retry_count |-> 0,
     bits |-> {},
     sta |-> "stopped",
     events |-> << >>,
     call |-> "none",
     op |-> "none",
     ret |-> "none",
     ev |-> "none",
     esp_wifi_connect |-> 0,
     got_ip |-> FALSE,
     exhausted |-> FALSE,
     disconnected |-> FALSE]

\* the step that starts now has handled no event and called nothing yet
WifiStep(w) == [w EXCEPT !.ev = "none", !.esp_wifi_connect = 0]

\* esp_wifi_start(): the station starts if it was stopped
esp_wifi_start(w) ==
    IF w.sta = "stopped"
    THEN [w EXCEPT !.sta = "idle", !.events = Append(@, "WIFI_EVENT_STA_START")]
    ELSE w

\* esp_wifi_connect(): the station begins an attempt
esp_wifi_connect(w) ==
    [w EXCEPT !.sta = IF @ = "idle" THEN "connecting" ELSE @,
              !.esp_wifi_connect = @ + 1]

\* esp_wifi_disconnect(): the station leaves the access point or gives
\* the attempt up, and the disconnect event follows
esp_wifi_disconnect(w) ==
    IF w.sta \in {"connecting", "connected"}
    THEN [w EXCEPT !.sta = "idle",
                   !.events = Append(@, "WIFI_EVENT_STA_DISCONNECTED")]
    ELSE w

\* notify_status_change of wifi_manager.c
wifi_notify_status_change(w, new_status) ==
    [w EXCEPT !.current_status = new_status]

\* wifi_event_handler retrying as long as retry_count <= max_retry
wifi_event_handler_offByOne(w, event_id) ==
    CASE event_id = "WIFI_EVENT_STA_START" -> esp_wifi_connect(w)
      [] event_id = "WIFI_EVENT_STA_DISCONNECTED" ->
            IF w.retry_count <= w.max_retry
            THEN wifi_notify_status_change(
                    [esp_wifi_connect(w) EXCEPT !.retry_count = (@ + 1) % 256],
                    "WIFI_STATUS_CONNECTING")
            ELSE wifi_notify_status_change(
                    [w EXCEPT !.bits = @ \cup {"WIFI_FAIL_BIT"}],
                    "WIFI_STATUS_FAILED")
      [] event_id = "IP_EVENT_STA_GOT_IP" ->
            wifi_notify_status_change(
                [w EXCEPT !.retry_count = 0,
                          !.bits = @ \cup {"WIFI_CONNECTED_BIT"}],
                "WIFI_STATUS_CONNECTED")

\* wifi_event_handler; retry_count is a uint8_t
wifi_event_handler(w, event_id) ==
    CASE event_id = "WIFI_EVENT_STA_START" -> esp_wifi_connect(w)
      [] event_id = "WIFI_EVENT_STA_DISCONNECTED" ->
            IF w.retry_count < w.max_retry
            THEN wifi_notify_status_change(
                    [esp_wifi_connect(w) EXCEPT !.retry_count = (@ + 1) % 256],
                    "WIFI_STATUS_CONNECTING")
            ELSE wifi_notify_status_change(
                    [w EXCEPT !.bits = @ \cup {"WIFI_FAIL_BIT"}],
                    "WIFI_STATUS_FAILED")
      [] event_id = "IP_EVENT_STA_GOT_IP" ->
            wifi_notify_status_change(
                [w EXCEPT !.retry_count = 0,
                          !.bits = @ \cup {"WIFI_CONNECTED_BIT"}],
                "WIFI_STATUS_CONNECTED")

\* wifi_manager_init
wifi_manager_init(w) ==
    IF w.wifi_manager_initialized
    THEN [w EXCEPT !.op = "init", !.ret = "ESP_OK"]
    ELSE [w EXCEPT !.wifi_manager_initialized = TRUE,
                   !.bits = {},
                   !.current_status = "WIFI_STATUS_DISCONNECTED",
                   !.op = "init", !.ret = "ESP_OK"]

\* wifi_manager_connect after xEventGroupWaitBits() returned with a bit set
wifi_manager_connect_bits(w) ==
    [w EXCEPT !.call = "none",
              !.ret = IF "WIFI_CONNECTED_BIT" \in w.bits THEN "ESP_OK"
                      ELSE "ESP_ERR_WIFI_CONN"]

\* wifi_manager_connect after xEventGroupWaitBits() timed out
wifi_manager_connect_timeout(w) ==
    [wifi_notify_status_change(w, "WIFI_STATUS_TIMEOUT") EXCEPT
        !.call = "none", !.ret = "ESP_ERR_TIMEOUT"]

\* wifi_manager_connect up to the return of xEventGroupWaitBits(), which
\* returns at once when a bit is set
wifi_manager_connect(w, max_retry) ==
    LET w0 == [w EXCEPT !.op = "connect", !.got_ip = FALSE, !.exhausted = FALSE,
                        !.disconnected = FALSE]
    IN  IF ~w.wifi_manager_initialized
        THEN [w0 EXCEPT !.ret = "ESP_ERR_INVALID_ARG"]
        ELSE LET w1 == wifi_notify_status_change(
                            esp_wifi_start([w0 EXCEPT !.max_retry = max_retry,
                                                      !.retry_count = 0]),
                            "WIFI_STATUS_CONNECTING")
             IN  IF w1.bits # {}
                 THEN wifi_manager_connect_bits(w1)
                 ELSE [w1 EXCEPT !.call = "connect", !.ret = "none"]

\* wifi_manager_disconnect
wifi_manager_disconnect(w) ==
    LET w0 == [w EXCEPT !.op = "disconnect"]
    IN  IF ~w.wifi_manager_initialized
        THEN [w0 EXCEPT !.ret = "ESP_ERR_INVALID_STATE"]
        ELSE IF w.sta = "stopped"
        THEN [w0 EXCEPT !.ret = "ESP_ERR_WIFI_NOT_STARTED"]
        ELSE [wifi_notify_status_change(esp_wifi_disconnect(w0),
                                        "WIFI_STATUS_DISCONNECTED")
                EXCEPT !.ret = "ESP_OK", !.disconnected = TRUE]

\* wifi_manager_is_connected
wifi_manager_is_connected(w) == w.current_status = "WIFI_STATUS_CONNECTED"

\* ------------------------------------------------------- ros2_manager.c

\* the length of imu_publish_queue
QueueLength == 10

\* the most ros2_manager_publish_imu() calls that get as far as xQueueSend()
MaxImu == 11

\* The statics of ros2_manager.c, its two tasks, its connection timer and
\* the caller of the ros2_manager_* functions.
\*   imu_publish_queue  the messages waiting in the queue, oldest first
\*   publish_task       "none", "waiting" (in vTaskDelayUntil) or "draining"
\*   subscribe_task     "none", "waiting" or "receiving"
\*   connection_timer   "none", "dormant" or "active"
\*   callback           the timer service task is inside
\*                      connection_timer_callback(), in the delay of
\*                      simulate_ros2_connection()
\*   call               "send" while the caller is blocked in xQueueSend()
\* and for the properties
\*   sends     the publish calls that got as far as xQueueSend(); the
\*             message of the n-th such call is n
\*   ev        what the latest step was
\*   ret       what the ros2_manager_* call of the latest step returned
\*   imu_data  the message of the ros2_manager_publish_imu() call of the
\*             latest step, or of the call that waits in xQueueSend()
\*   imu_msg   the message the publish task received in the latest step
NoRos ==
    [ros2_manager_initialized |-> FALSE,
     ros2_manager_started |-> FALSE,
     current_status |-> "ROS2_STATUS_DISCONNECTED",
     imu_publish_queue |-> << >>,
     publish_task |-> "none",
     subscribe_task |-> "none",
     connection_timer |-> "none",
     callback |-> FALSE,
     publish_errors |-> 0,
     call |-> "none",
     ret |-> "none",
     sends |-> 0,
     ev |-> "none",
     imu_data |-> 0,
     imu_msg |-> 0]

\* the step that starts now
RosStep(r, step) ==
    [r EXCEPT !.ev = step, !.ret = "none", !.imu_msg = 0,
              !.imu_data = IF r.call = "send" THEN @ ELSE 0]

RosReturn(r, code) == [r EXCEPT !.ret = code, !.call = "none"]

ros2_notify_status_change(r, new_status) ==
    IF r.current_status # new_status
    THEN [r EXCEPT !.current_status = new_status]
    ELSE r

ros2_manager_is_connected(r) ==
    r.current_status \in {"ROS2_STATUS_CONNECTED", "ROS2_STATUS_PUBLISHING",
                          "ROS2_STATUS_SUBSCRIBING"}

\* config is "NULL" or "config"; heap tells whether the queue and the timer
\* can be created
ros2_manager_init(r, config, heap) ==
    IF r.ros2_manager_initialized
    THEN RosReturn(r, "ESP_OK")
    ELSE IF config = "NULL"
    THEN RosReturn(r, "ESP_ERR_INVALID_ARG")
    ELSE IF ~heap
    THEN RosReturn(r, "ESP_ERR_NO_MEM")
    ELSE RosReturn([r EXCEPT
            !.imu_publish_queue = << >>,
            !.connection_timer = "dormant",
            !.publish_errors = 0,
            !.current_status = "ROS2_STATUS_DISCONNECTED",
            !.ros2_manager_initialized = TRUE], "ESP_OK")

\* xTimerStop() sends a command to the timer service task and does not
\* wait for a callback that is running
ros2_manager_stop(r) ==
    IF ~r.ros2_manager_started
    THEN RosReturn(r, "ESP_OK")
    ELSE RosReturn(ros2_notify_status_change([r EXCEPT
            !.connection_timer = IF @ = "none" THEN @ ELSE "dormant",
            !.publish_task = "none",
            !.subscribe_task = "none",
            !.ros2_manager_started = FALSE], "ROS2_STATUS_DISCONNECTED"),
            "ESP_OK")

ros2_manager_deinit(r) ==
    IF ~r.ros2_manager_initialized
    THEN RosReturn(r, "ESP_OK")
    ELSE RosReturn([ros2_manager_stop(r) EXCEPT
            !.imu_publish_queue = << >>,
            !.connection_timer = "none",
            !.ros2_manager_initialized = FALSE,
            !.current_status = "ROS2_STATUS_DISCONNECTED"], "ESP_OK")

\* created is the number of tasks xTaskCreate() can create
ros2_manager_start(r, created) ==
    IF ~r.ros2_manager_initialized
    THEN RosReturn(r, "ESP_ERR_INVALID_STATE")
    ELSE IF r.ros2_manager_started
    THEN RosReturn(r, "ESP_OK")
    ELSE LET r1 == ros2_notify_status_change(r, "ROS2_STATUS_CONNECTING")
         IN  IF created < 2
             THEN RosReturn(r1, "ESP_ERR_NO_MEM")
             ELSE RosReturn([r1 EXCEPT
                    !.publish_task = "waiting",
                    !.subscribe_task = "waiting",
                    !.connection_timer = "active",
                    !.ros2_manager_started = TRUE], "ESP_OK")

\* xQueueSend() has room: the message goes to the back of the queue
ros2_manager_publish_imu_sent(r) ==
    RosReturn([r EXCEPT !.imu_publish_queue = Append(@, r.imu_data)],
              "ESP_OK")

\* xQueueSend() found no room for 100 ms
ros2_manager_publish_imu_timeout(r) ==
    RosReturn([r EXCEPT !.publish_errors = @ + 1],
              "ESP_ERR_TIMEOUT")

ros2_manager_publish_imu_unguarded(r, imu_data) ==
    IF ~r.ros2_manager_initialized
    THEN RosReturn(r, "ESP_ERR_INVALID_STATE")
    ELSE IF imu_data = 0
    THEN RosReturn(r, "ESP_ERR_INVALID_ARG")
    ELSE LET r1 == [r EXCEPT !.sends = @ + 1, !.imu_data = r.sends + 1]
         IN  IF Len(r.imu_publish_queue) < QueueLength
             THEN ros2_manager_publish_imu_sent(r1)
             ELSE [r1 EXCEPT !.call = "send"]

\* imu_data is 0 for a null pointer, else anything but 0: the message is
\* given the number of the call
ros2_manager_publish_imu(r, imu_data) ==
    IF ~r.ros2_manager_initialized \/ ~r.ros2_manager_started
    THEN RosReturn(r, "ESP_ERR_INVALID_STATE")
    ELSE IF imu_data = 0
    THEN RosReturn(r, "ESP_ERR_INVALID_ARG")
    ELSE LET r1 == [r EXCEPT !.sends = @ + 1, !.imu_data = r.sends + 1]
         IN  IF Len(r.imu_publish_queue) < QueueLength
             THEN ros2_manager_publish_imu_sent(r1)
             ELSE [r1 EXCEPT !.call = "send"]

\* publish_task() after vTaskDelayUntil(): it goes on only when connected
publish_task_wake(r) ==
    IF ~ros2_manager_is_connected(r)
    THEN r
    ELSE [r EXCEPT !.publish_task = "draining"]

\* one round of the inner loop of publish_task()
publish_task_receive(r) ==
    [ros2_notify_status_change(r, "ROS2_STATUS_PUBLISHING") EXCEPT
        !.imu_msg = Head(r.imu_publish_queue),
        !.imu_publish_queue = Tail(@)]

\* the queue is empty: publish_task() goes back to CONNECTED and waits
publish_task_idle(r) ==
    [(IF ros2_manager_is_connected(r)
         /\ r.current_status = "ROS2_STATUS_PUBLISHING"
      THEN ros2_notify_status_change(r, "ROS2_STATUS_CONNECTED")
      ELSE r) EXCEPT !.publish_task = "waiting"]

\* subscribe_task() after vTaskDelayUntil()
subscribe_task_wake(r) ==
    IF ~ros2_manager_is_connected(r)
    THEN r
    ELSE [ros2_notify_status_change(r, "ROS2_STATUS_SUBSCRIBING") EXCEPT
            !.subscribe_task = "receiving"]

subscribe_task_done(r) ==
    [(IF ros2_manager_is_connected(r)
         /\ r.current_status = "ROS2_STATUS_SUBSCRIBING"
      THEN ros2_notify_status_change(r, "ROS2_STATUS_CONNECTED")
      ELSE r) EXCEPT !.subscribe_task = "waiting"]

\* the one-shot timer expires: the timer service task enters
\* connection_timer_callback() and blocks in simulate_ros2_connection()
connection_timer_expire(r) ==
    [r EXCEPT !.connection_timer = "dormant", !.callback = TRUE]

\* simulate_ros2_connection() returns ESP_OK
connection_timer_callback(r) ==
    [ros2_notify_status_change(r, "ROS2_STATUS_CONNECTED") EXCEPT
        !.callback = FALSE]

\* ------------------------------------------ the wait loops of the tests
\* ros2_test.cpp and wifi_test.cpp: the four loops that poll a condition
\* every PollMs until a deadline, and the steps around them.

\* ROS2Test::connection_timeout_ms_ as the constructor sets it
ConnectionTimeoutMs == 30000

\* the delay of simulate_ros2_connection() inside the timer callback
SimulatedConnectMs == 1000

\* the vTaskDelay() of every wait loop
PollMs == 100

\* timeout of the image wait
ImageTimeoutMs == 10000

\* the delay after every mock image
MockImageMs == 1000

\* WiFiTest::connection_timeout_ as the constructor sets it
WifiTimeoutMs == 15000

\* disconnect_timeout of testReconnection()
DisconnectTimeoutMs == 5000

\* values of expected_image_count_ (an int): the constructor's, and a
\* negative one from setExpectedImageCount()
ExpectedCounts == {5, -1}

\* the most images the image callback counts
MaxImages == 6

\* a < b for uint32_t values
U32Less(a, b) == a.hi < b.hi \/ (a.hi = b.hi /\ a.lo < b.lo)

\* messages_received_ < expected_image_count_: the int is converted to
\* unsigned, so a negative count is above every count the model reaches
LessUnsigned(received, expected) ==
    IF expected < 0 THEN TRUE ELSE received < expected

\*   loop      "ros2_connection" (ROS2Test::waitForConnection in
\*             testROS2Connection), "image" (testImageSubscription),
\*             "wifi_connection" (WiFiTest::waitForConnection) or
\*             "disconnect" (testReconnection)
\*   pc        "idle", "mock", "check", "sleep", "reconnect", "done"
\*   now       xTaskGetTickCount() * portTICK_PERIOD_MS, a uint32_t
\*   routed    ROS2Test::instance_ is the object whose step runs
\*   timer_left, callback_left
\*             milliseconds until the connection timer expires / until
\*             simulate_ros2_connection() returns; 0 when neither runs
\*   ret       what the step returns
\* and for the properties
\*   waited    the milliseconds since start_time was taken
\*   expired   the loop was left through its deadline
NoWait ==
    [loop |-> "none",
     pc |-> "idle",
     now |-> Zero32,
     start_time |-> Zero32,
     timeout |-> 0,
     expected_image_count_ |-> 5,
     routed |-> TRUE,
     messages_received_ |-> 0,
     i |-> 0,
     timer_left |-> 0,
     callback_left |-> 0,
     ret |-> "none",
     waited |-> 0,
     expired |-> FALSE]

\* the deadline test of a loop taken against an absolute end time
WaitExpired_absolute(w) ==
    U32Less(U32Add(w.start_time, ToU32(w.timeout)), w.now)

\* (current_time - start_time) > timeout
WaitExpired(w) == U32Less(ToU32(w.timeout), U32Sub(w.now, w.start_time))

\* ms milliseconds pass while the step sleeps in vTaskDelay(): the timer
\* service task runs what falls due before the step goes on
Elapse(s, ms) ==
    LET w == s.wait
        expires == w.timer_left > 0 /\ w.timer_left <= ms
        returns == w.callback_left > 0 /\ w.callback_left <= ms
    IN  [s EXCEPT
            !.wait = [w EXCEPT
                !.now = U32Add(@, ToU32(ms)),
                !.waited = @ + ms,
                !.timer_left = IF @ > ms THEN @ - ms ELSE 0,
                !.callback_left = IF expires THEN SimulatedConnectMs
                                  ELSE IF @ > ms THEN @ - ms ELSE 0],
            !.ros = IF expires
                    THEN connection_timer_expire(RosStep(@, "expire"))
                    ELSE IF returns
                    THEN connection_timer_callback(RosStep(@, "callback"))
                    ELSE @]

StartWaiting(w, timeout) ==
    [w EXCEPT !.start_time = w.now, !.timeout = timeout, !.waited = 0,
              !.pc = "check"]

WaitDone(w, code) == [w EXCEPT !.pc = "done", !.ret = code]

\* testROS2Connection() up to the loop of waitForConnection()
testROS2Connection(s, created) ==
    LET r == ros2_manager_start(RosStep(s.ros, "start"), created)
        armed == r.connection_timer = "active"
                 /\ ~s.ros.ros2_manager_started
    IN  IF r.ret # "ESP_OK"
        THEN [s EXCEPT !.ros = r, !.wait = WaitDone(@, r.ret)]
        ELSE [s EXCEPT
                !.ros = r,
                !.wait = StartWaiting(
                    [@ EXCEPT !.timer_left =
                        IF armed THEN ConnectionTimeoutMs ELSE @],
                    ConnectionTimeoutMs)]

\* testImageSubscription() up to its mock loop
testImageSubscription(s) ==
    [s EXCEPT !.wait = [StartWaiting(@, ImageTimeoutMs) EXCEPT
                            !.pc = "mock", !.i = 0]]

\* one round of the mock loop: ros2_manager_mock_receive_image() calls the
\* image callback, then the step sleeps
mockImage(s) ==
    Elapse([s EXCEPT
        !.wait.messages_received_ = IF s.wait.routed THEN @ + 1 ELSE @,
        !.wait.i = @ + 1], MockImageMs)

\* testReconnection() up to its loop
testReconnection(s) ==
    LET w == wifi_manager_disconnect(WifiStep(s.wifi))
    IN  IF w.ret # "ESP_OK"
        THEN [s EXCEPT !.wifi = w, !.wait = WaitDone(@, w.ret)]
        ELSE [s EXCEPT !.wifi = w,
                       !.wait = StartWaiting(@, DisconnectTimeoutMs)]

\* the condition a loop waits for
Awaited(s) ==
    CASE s.wait.loop = "ros2_connection" -> ros2_manager_is_connected(s.ros)
      [] s.wait.loop = "wifi_connection" -> wifi_manager_is_connected(s.wifi)
      [] s.wait.loop = "disconnect" -> ~wifi_manager_is_connected(s.wifi)
      [] s.wait.loop = "image" ->
            ~LessUnsigned(s.wait.messages_received_,
                          s.wait.expected_image_count_)

\* what follows the loop of a step
AfterLoop(s, expired) ==
    LET w == [s.wait EXCEPT !.expired = expired]
    IN  CASE w.loop = "ros2_connection" ->
                [s EXCEPT !.wait = WaitDone(w,
                    IF expired THEN "ESP_ERR_TIMEOUT"
                    ELSE IF ros2_manager_is_connected(s.ros) THEN "ESP_OK"
                    ELSE "ESP_FAIL")]
          [] w.loop = "wifi_connection" ->
                [s EXCEPT !.wait = WaitDone(w,
                    IF expired THEN "ESP_ERR_TIMEOUT" ELSE "ESP_OK")]
          [] w.loop = "image" ->
                [s EXCEPT !.wait = WaitDone(w,
                    IF w.messages_received_ > 0 THEN "ESP_OK"
                    ELSE "ESP_FAIL")]
          [] w.loop = "disconnect" ->
                IF wifi_manager_is_connected(s.wifi)
                THEN [s EXCEPT !.wait = WaitDone(w, "ESP_FAIL")]
                ELSE [s EXCEPT
                        !.wifi = wifi_manager_connect(WifiStep(@), @.max_retry),
                        !.wait = [w EXCEPT !.pc = "reconnect"]]

\* the mock loop of testImageSubscription(): i < expected_image_count_
mockLoop(s) ==
    IF s.wait.i < s.wait.expected_image_count_
    THEN mockImage(s)
    ELSE [s EXCEPT !.wait.pc = "check"]

\* the head of a loop and the deadline test in its body
waitCheck(s) ==
    IF Awaited(s)
    THEN AfterLoop(s, FALSE)
    ELSE IF WaitExpired(s.wait)
    THEN AfterLoop(s, TRUE)
    ELSE [s EXCEPT !.wait.pc = "sleep"]

\* vTaskDelay(pdMS_TO_TICKS(100)) of a loop
waitSleep(s) == [Elapse(s, PollMs) EXCEPT !.wait.pc = "check"]

\* wifi_manager_connect() has returned to testReconnection()
reconnected(s) == [s EXCEPT !.wait = WaitDone(@, s.wifi.ret)]

\* ------------------------------------------ the static instance_ pointer
\* ros2_test.cpp and wifi_test.cpp: the static callbacks given to the
\* manager reach a test object through the static member instance_ only.

\* the objects of the class that are constructed
MaxObjects == 2

\* the most collaborator events that are raised
MaxEvents == 3

\*   instance_  the object the pointer holds, 0 for nullptr
\*   live       the objects constructed so far
\*   running    the object between its setup() and its teardown(), else 0
\*   counters   per object what its handlers counted since resetCounters()
\* and for the properties
\*   latest     the object constructed last, 0 when there is none
\*   runs       per object the number of its runs begun
\*   torn       a teardown() has returned
\*   cleared    a teardown() has returned and no object was constructed since
\*   raised     the events raised so far
\*   ev         what the latest step was
NoCallbacks ==
    [instance_ |-> 0,
     live |-> {},
     running |-> 0,
     counters |-> [o \in 1..MaxObjects |-> 0],
     latest |-> 0,
     runs |-> [o \in 1..MaxObjects |-> 0],
     torn |-> FALSE,
     cleared |-> FALSE,
     raised |-> 0,
     ev |-> "none"]

\* the constructor of object o
TestConstructor(c, o) ==
    [c EXCEPT !.instance_ = o,
              !.live = @ \cup {o},
              !.counters[o] = 0,
              !.latest = o,
              !.cleared = FALSE,
              !.ev = "constructor"]

\* setup() taking the pointer back for the object that is set up
TestSetup_claiming(c, o) ==
    [c EXCEPT !.instance_ = o,
              !.running = o,
              !.counters[o] = 0,
              !.runs[o] = @ + 1,
              !.ev = "setup"]

\* setup() of object o: resetCounters(), and the steps are added
TestSetup(c, o) ==
    [c EXCEPT !.running = o,
              !.counters[o] = 0,
              !.runs[o] = @ + 1,
              !.ev = "setup"]

\* teardown() of object o
TestTeardown(c, o) ==
    [c EXCEPT !.instance_ = 0,
              !.running = 0,
              !.torn = TRUE,
              !.cleared = TRUE,
              !.ev = "teardown"]

\* a static callback called by the manager: if (instance_) the handler of
\* that object counts the event
StaticCallback(c) ==
    [c EXCEPT !.counters = IF c.instance_ # 0
                           THEN [@ EXCEPT ![c.instance_] = @ + 1]
                           ELSE @,
              !.raised = @ + 1,
              !.ev = "event"]

\* ---------------------------------------------------------------- actions

Idle == pc \in {"idle", "done"}

\* TestManager::TestManager
InitState ==
    [tests_ |-> << >>, stop_on_first_failure_ |-> FALSE,
     parallel_execution_ |-> FALSE, test_timeout_ms_ |-> 300000,
     overall_result_ |-> "NOT_RUN", pc |-> "idle", mode |-> "none",
     queue |-> << >>, idx |-> 0, all_passed |-> TRUE, cur |-> 0, step_i |-> 0,
     ret |-> FALSE, runs |-> 0, execs |-> 0, executed |-> << >>, returned |-> << >>,
     calls |-> << >>, rets |-> NoRets, last_run |-> NoRun,
     invoked |-> << >>, steps_ret |-> "none", applied |-> << >>,
     arg |-> << >>, query |-> NoQuery, tick |-> Zero32,
     portTICK_PERIOD_MS |-> 10, stopwatch |-> NoStopwatch, twin |-> "none",
     wifi |-> NoWifi,
     ros |-> NoRos,
     wait |-> NoWait,
     callbacks |-> NoCallbacks]

Init == Start(InitState)

\* The caller goes on after a run mode returned: what the model remembers
\* of that run mode is dropped.
Resume(s) ==
    [s EXCEPT !.pc = "idle", !.mode = "none", !.queue = << >>, !.idx = 0,
              !.executed = << >>, !.returned = << >>, !.applied = << >>,
              !.cur = 0, !.step_i = 0, !.last_run = NoRun, !.all_passed = TRUE,
              !.ret = FALSE, !.arg = << >>, !.query = NoQuery,
              !.stopwatch = NoStopwatch]

\* TestManager::addTest with a newly constructed test of class c
addTest(s, c) ==
    [Resume(s) EXCEPT !.tests_ = Append(@, NewTest(c.name, c.tmpl))]

\* TestManager::setStopOnFirstFailure
setStopOnFirstFailure(s, stop) ==
    [Resume(s) EXCEPT !.stop_on_first_failure_ = stop]

\* TestManager::setParallelExecution
setParallelExecution(s, parallel) ==
    [Resume(s) EXCEPT !.parallel_execution_ = parallel]

\* TestManager::addTest called
AddTest ==
    /\ Idle
    /\ Len(tests_) < MaxTests
    /\ \E c \in TestClasses : Commit(addTest(St, c))

\* TestManager::setStopOnFirstFailure called
SetStopOnFirstFailure ==
    /\ Idle
    /\ \E stop \in BOOLEAN : Commit(setStopOnFirstFailure(St, stop))

\* The run modes are explored as long as the run() calls they have to
\* make stay within MaxExec in total.
RunAllTests ==
    /\ Idle
    /\ LET s == runAllTests(St)
       IN  s.execs <= MaxExec /\ Commit(s)

RunTest ==
    /\ Idle
    /\ \E test_name \in Names :
        LET s == runTest(St, test_name)
        IN  s.execs <= MaxExec /\ Commit(s)

RunTestsMatching ==
    /\ Idle
    /\ \E pattern \in Patterns :
        LET s == runTestsMatching(St, pattern)
        IN  s.execs <= MaxExec /\ Commit(s)

\* setup() of the running test returns
SetupReturn ==
    /\ pc = "setup"
    /\ \E r \in HookResults :
        LET s == run_afterSetup(St, r) IN Commit(s)

\* the action of the current step returns r
StepReturns(r) == Commit(executeStep_returned(St, r))

\* the action of the current step returns: success or failure
StepReturn ==
    /\ pc = "step"
    /\ \E r \in HookResults : StepReturns(r)

\* teardown() of the running test returns
TeardownReturn ==
    /\ pc = "teardown"
    /\ \E r \in HookResults :
        LET s == run_afterTeardown(St, r) IN Commit(s)

Next ==
    \/ AddTest
    \/ SetStopOnFirstFailure
    \/ RunAllTests
    \/ RunTest
    \/ RunTestsMatching
    \/ SetupReturn
    \/ StepReturn
    \/ TeardownReturn

Spec == Init /\ [][Next]_vars

\* ------------------------------------ selection by name and by pattern
\* runTest() and runTestsMatching() on every registry of up to MaxTests
\* tests with different names out of "BNO055", "PSRAM" and "WiFi", with
\* either setting of stop_on_first_failure_.

SelNames ==
    {<<66, 78, 79, 48, 53, 53>>, <<80, 83, 82, 65, 77>>, <<87, 105, 70, 105>>}

\* the names looked up: "PSRAM", "bno055" and "BNO"
LookupNames ==
    {<<80, 83, 82, 65, 77>>, <<98, 110, 111, 48, 53, 53>>, <<66, 78, 79>>}

\* the patterns: "*", "no", "NO", "zzz" and "b*"
SelPatterns ==
    {<<42>>, <<110, 111>>, <<78, 79>>, <<122, 122, 122>>, <<98, 42>>}

Registries ==
    {reg \in UNION {[1..n -> SelNames] : n \in 0..MaxTests} :
        \A j, k \in 1..Len(reg) : reg[j] = reg[k] => j = k}

InitSelect ==
    \E reg \in Registries, stop \in BOOLEAN :
        Start([InitState EXCEPT
            !.tests_ = [k \in 1..Len(reg) |-> NewTest(reg[k], <<CritStep>>)],
            !.stop_on_first_failure_ = stop])

RunTestNamed ==
    /\ Idle
    /\ \E test_name \in LookupNames :
        LET s == runTest(St, test_name)
        IN  s.execs <= MaxExec /\ Commit(s)

RunTestsMatchingPattern ==
    /\ Idle
    /\ \E pattern \in SelPatterns :
        LET s == runTestsMatching(St, pattern)
        IN  s.execs <= MaxExec /\ Commit(s)

NextSelect ==
    \/ RunTestNamed
    \/ RunTestsMatchingPattern
    \/ SetupReturn
    \/ StepReturn
    \/ TeardownReturn

SpecSelect == InitSelect /\ [][NextSelect]_vars

\* --------------------------------------------------- the queries
\* getOverallResult() and getStatistics() on every registry of up to
\* MaxTests tests, whatever result and duration each status holds.  A
\* test that has never run holds no duration.

\* duration_ms values: 0, 1500 and 2^32 - 1
Durations == {Zero32, ToU32(1500), [hi |-> Half - 1, lo |-> Half - 1]}

Statuses ==
    {st \in [result : TestResult, duration_ms : Durations] :
        st.result = "NOT_RUN" => st.duration_ms = Zero32}

InitQuery ==
    \E sts \in UNION {[1..n -> Statuses] : n \in 0..MaxTests} :
        Start([InitState EXCEPT
            !.tests_ = [k \in 1..Len(sts) |->
                [NewTest(<<98>>, <<CritStep>>) EXCEPT
                    !.status_.result = sts[k].result,
                    !.status_.duration_ms = sts[k].duration_ms]]])

\* TestManager::getOverallResult called
GetOverallResult ==
    /\ Idle
    /\ Commit([St EXCEPT !.query = [op |-> "getOverallResult",
                                     value |-> getOverallResult(tests_)]])

\* TestManager::getStatistics called
GetStatistics ==
    /\ Idle
    /\ Commit([St EXCEPT !.query = [op |-> "getStatistics",
                                     value |-> getStatistics(tests_)]])

NextQuery ==
    \/ GetOverallResult
    \/ GetStatistics

SpecQuery == InitQuery /\ [][NextQuery]_vars

\* ------------------------------------- configuration and reports
\* The Manager as test_main.cpp uses it: it is constructed, configured with
\* the setters and addTest() in any order, run once with runAllTests(), and
\* queried and reported on at any time before and after that run.

\* the values setTestTimeout() is called with: that of test_main.cpp, and 0
TestTimeouts == {300000, 0}

\* TestManager::setParallelExecution called
SetParallelExecution ==
    /\ Idle
    /\ \E parallel \in BOOLEAN : Commit(setParallelExecution(St, parallel))

\* TestManager::setTestTimeout
SetTestTimeout ==
    /\ Idle
    /\ \E timeout_ms \in TestTimeouts :
        Commit([Resume(St) EXCEPT !.test_timeout_ms_ = timeout_ms])

\* TestManager::getTestNames called
GetTestNames ==
    /\ Idle
    /\ Commit([St EXCEPT !.query = [op |-> "getTestNames",
                                     value |-> getTestNames(tests_)]])

\* TestManager::getTest called
GetTest ==
    /\ Idle
    /\ \E name \in Names :
        Commit([St EXCEPT !.query =
            [op |-> "getTest",
             value |-> [name |-> name, test |-> getTest(tests_, name)]]])

\* printTestResults marking every test as not run once it is reported
PrintTestResults_resetting ==
    /\ Idle
    /\ Commit([St EXCEPT
            !.query = [op |-> "printTestResults",
                       value |-> printTestResults(tests_)],
            !.tests_ = [k \in 1..Len(tests_) |->
                [tests_[k] EXCEPT
                    !.status_ = updateStatus(@, "NOT_RUN", "")]]])

\* TestManager::printTestResults called
PrintTestResults ==
    /\ Idle
    /\ Commit([St EXCEPT !.query = [op |-> "printTestResults",
                                     value |-> printTestResults(tests_)]])

\* printTestSummary keeping the overall result it computed
PrintTestSummary_storing ==
    /\ Idle
    /\ Commit([St EXCEPT
            !.query = [op |-> "printTestSummary",
                       value |-> printTestSummary(tests_)],
            !.overall_result_ = getOverallResult(tests_)])

\* TestManager::printTestSummary called
PrintTestSummary ==
    /\ Idle
    /\ Commit([St EXCEPT !.query = [op |-> "printTestSummary",
                                     value |-> printTestSummary(tests_)]])

\* no run mode has been invoked yet
BeforeFirstRun == runs = 0

ConfigureAddTest == BeforeFirstRun /\ AddTest

ConfigureStopOnFirstFailure == BeforeFirstRun /\ SetStopOnFirstFailure

ConfigureParallelExecution == BeforeFirstRun /\ SetParallelExecution

ConfigureTestTimeout == BeforeFirstRun /\ SetTestTimeout

\* the first run mode of the Manager: runAllTests
FirstRunAllTests == BeforeFirstRun /\ RunAllTests

NextConfig ==
    \/ ConfigureAddTest
    \/ ConfigureStopOnFirstFailure
    \/ ConfigureParallelExecution
    \/ ConfigureTestTimeout
    \/ GetOverallResult
    \/ GetStatistics
    \/ GetTestNames
    \/ GetTest
    \/ PrintTestResults
    \/ PrintTestSummary
    \/ FirstRunAllTests
    \/ SetupReturn
    \/ StepReturn
    \/ TeardownReturn

SpecConfig == Init /\ [][NextConfig]_vars

\* --------------------------------------- two Managers side by side
\* A second Manager is kept in twin.  Both are constructed, get the same
\* tests and the same setStopOnFirstFailure() calls, each its own
\* setParallelExecution() calls, and then the same run mode with the same
\* argument once; every hook and every step action returns the same code
\* to both; the same queries are made of both.

\* this Manager without the other one
Left == [St EXCEPT !.twin = "none"]

\* the next state: a for this Manager, b for the other
Pair(a, b) == Commit([a EXCEPT !.twin = b])

InitParallel == Start([InitState EXCEPT !.twin = InitState])

BothAddTest ==
    /\ BeforeFirstRun
    /\ Idle
    /\ Len(tests_) < MaxTests
    /\ \E c \in TestClasses : Pair(addTest(Left, c), addTest(twin, c))

BothSetStopOnFirstFailure ==
    /\ BeforeFirstRun
    /\ Idle
    /\ \E stop \in BOOLEAN :
        Pair(setStopOnFirstFailure(Left, stop), setStopOnFirstFailure(twin, stop))

EachSetParallelExecution ==
    /\ BeforeFirstRun
    /\ Idle
    /\ \E parallel, other \in BOOLEAN :
        Pair(setParallelExecution(Left, parallel), setParallelExecution(twin, other))

BothRunAllTests ==
    /\ BeforeFirstRun
    /\ Idle
    /\ LET a == runAllTests(Left)
       IN  a.execs <= MaxExec /\ Pair(a, runAllTests(twin))

BothRunTest ==
    /\ BeforeFirstRun
    /\ Idle
    /\ \E test_name \in Names :
        LET a == runTest(Left, test_name)
        IN  a.execs <= MaxExec /\ Pair(a, runTest(twin, test_name))

BothRunTestsMatching ==
    /\ BeforeFirstRun
    /\ Idle
    /\ \E pattern \in Patterns :
        LET a == runTestsMatching(Left, pattern)
        IN  a.execs <= MaxExec /\ Pair(a, runTestsMatching(twin, pattern))

\* setup() returns r to the test running in each Manager
BothSetupReturn ==
    /\ pc = "setup"
    /\ \E r \in HookResults :
        Pair(run_afterSetup(Left, r),
             IF twin.pc = "setup" THEN run_afterSetup(twin, r) ELSE twin)

\* the step action returns r in each Manager
BothStepReturn ==
    /\ pc = "step"
    /\ \E r \in HookResults :
        Pair(executeStep_returned(Left, r),
             IF twin.pc = "step" THEN executeStep_returned(twin, r) ELSE twin)

\* teardown() returns r in each Manager
BothTeardownReturn ==
    /\ pc = "teardown"
    /\ \E r \in HookResults :
        Pair(run_afterTeardown(Left, r),
             IF twin.pc = "teardown" THEN run_afterTeardown(twin, r) ELSE twin)

BothGetStatistics ==
    /\ Idle
    /\ Pair([Left EXCEPT !.query = [op |-> "getStatistics",
                                    value |-> getStatistics(tests_)]],
            [twin EXCEPT !.query = [op |-> "getStatistics",
                                    value |-> getStatistics(twin.tests_)]])

BothGetOverallResult ==
    /\ Idle
    /\ Pair([Left EXCEPT !.query = [op |-> "getOverallResult",
                                    value |-> getOverallResult(tests_)]],
            [twin EXCEPT !.query = [op |-> "getOverallResult",
                                    value |-> getOverallResult(twin.tests_)]])

NextParallel ==
    \/ BothAddTest
    \/ BothSetStopOnFirstFailure
    \/ EachSetParallelExecution
    \/ BothRunAllTests
    \/ BothRunTest
    \/ BothRunTestsMatching
    \/ BothSetupReturn
    \/ BothStepReturn
    \/ BothTeardownReturn
    \/ BothGetStatistics
    \/ BothGetOverallResult

SpecParallel == InitParallel /\ [][NextParallel]_vars

\* ------------------------------------------------------------ the clock
\* In the specifications above no tick passes.  Here the tick count
\* advances while a hook or a step action runs, up to MaxTicks ticks in
\* one run(), on a Manager with one test; the tick count starts at 0, at
\* 2^32 - 1, or at 429496729, one tick before ten times the count passes
\* 2^32.

TickSamples ==
    {Zero32, [hi |-> Half - 1, lo |-> Half - 1], [hi |-> 6553, lo |-> 39321]}

\* milliseconds per tick: 1000 Hz and 100 Hz builds
TickPeriods == {1, 10}

InitTimer ==
    \E t0 \in TickSamples, period \in TickPeriods :
        Start([InitState EXCEPT
            !.tests_ = <<NewTest(<<98>>, <<CritStep>>)>>,
            !.tick = t0,
            !.portTICK_PERIOD_MS = period])

\* the tick interrupt while a hook or a step action runs
Tick ==
    /\ pc \in {"setup", "step", "teardown"}
    /\ stopwatch.ticks + stopwatch.after < MaxTicks
    /\ Commit([St EXCEPT
            !.tick = U32Add(@, ToU32(1)),
            !.stopwatch = IF @.running
                          THEN [@ EXCEPT !.ticks = @ + 1]
                          ELSE [@ EXCEPT !.after = @ + 1]])

NextTimer ==
    \/ RunAllTests
    \/ SetupReturn
    \/ StepReturn
    \/ TeardownReturn
    \/ Tick

SpecTimer == InitTimer /\ [][NextTimer]_vars

\* ------------------------------------------------- runSteps() on its own
\* runSteps() for every step sequence of up to MaxSteps steps: the state
\* in which run() has called execute() on a test holding that sequence.

StepSeqs == UNION {[1..n -> TestStep] : n \in 0..MaxSteps}

InExecute(sq) ==
    execute([InitState EXCEPT
        !.tests_ = <<[NewTest(<<98>>, sq) EXCEPT
                        !.status_ = updateStatus(@, "RUNNING", "Test execution started"),
                        !.test_steps_ = sq]>>,
        !.mode = "one", !.runs = 1, !.execs = 1, !.queue = <<1>>, !.idx = 1,
        !.cur = 1,
        !.executed = <<1>>,
        !.calls = <<"updateStatus", "startTimer", "setup">>,
        !.rets = [NoRets EXCEPT !.setup = "ESP_OK"]])

InitSteps == \E sq \in StepSeqs : Start(InExecute(sq))

\* the action of the current step returns any of the codes
StepReturnCode ==
    /\ pc = "step"
    /\ \E r \in StepResults : StepReturns(r)

NextSteps ==
    \/ StepReturnCode
    \/ TeardownReturn

SpecSteps == InitSteps /\ [][NextSteps]_vars

\* --------------------------------------- updateOverallResult() on its own
\* The batch loop's updateOverallResult(test->getStatus().result) for every
\* value a status can hold, from the state in which the loop starts.

InitTie ==
    Start([InitState EXCEPT
        !.tests_ = <<NewTest(<<98>>, <<CritStep>>)>>,
        !.mode = "all", !.runs = 1, !.execs = 1, !.queue = <<1>>, !.idx = 1,
        !.overall_result_ = "PASSED", !.pc = "tie"])

UpdateOverallResult ==
    /\ pc = "tie"
    /\ Len(applied) < MaxApplied
    /\ \E test_result \in TestResult :
        Commit([St EXCEPT
            !.overall_result_ = updateOverallResult(@, test_result),
            !.applied = Append(@, test_result)])

NextTie == UpdateOverallResult

SpecTie == InitTie /\ [][NextTie]_vars

\* -------------------------------------------- the WiFi manager at work
\* One caller of wifi_manager_init(), wifi_manager_connect() and
\* wifi_manager_disconnect(), the event loop task that runs
\* wifi_event_handler() on the events posted, one at a time, and the
\* station, whose attempts succeed or fail and whose link can be lost at
\* any moment.

CommitWifi(w) == Commit([St EXCEPT !.wifi = w])

WifiManagerInit ==
    /\ wifi.call = "none"
    /\ CommitWifi(wifi_manager_init(WifiStep(wifi)))

WifiManagerConnect ==
    /\ wifi.call = "none"
    /\ \E max_retry \in 0..MaxRetry :
        CommitWifi(wifi_manager_connect(WifiStep(wifi), max_retry))

WifiManagerDisconnect ==
    /\ wifi.call = "none"
    /\ CommitWifi(wifi_manager_disconnect(WifiStep(wifi)))

\* xEventGroupWaitBits() returns to wifi_manager_connect() with a bit set
WifiConnectWoken ==
    /\ wifi.call = "connect"
    /\ wifi.bits # {}
    /\ CommitWifi(wifi_manager_connect_bits(WifiStep(wifi)))

\* timeout_ms passed in xEventGroupWaitBits() with no bit set
WifiConnectTimeout ==
    /\ wifi.call = "connect"
    /\ wifi.bits = {}
    /\ CommitWifi(wifi_manager_connect_timeout(WifiStep(wifi)))

\* the event loop task runs wifi_event_handler() on the oldest event
WifiEvent ==
    /\ wifi.events # << >>
    /\ LET event_id == Head(wifi.events)
           w == wifi_event_handler(
                    [WifiStep(wifi) EXCEPT !.events = Tail(@), !.ev = event_id],
                    event_id)
       IN  CommitWifi([w EXCEPT
                !.got_ip = @ \/ (wifi.call = "connect"
                                 /\ event_id = "IP_EVENT_STA_GOT_IP"),
                !.exhausted = @ \/ (wifi.call = "connect"
                                    /\ event_id = "WIFI_EVENT_STA_DISCONNECTED"
                                    /\ w.esp_wifi_connect = 0)])

\* the attempt of the station succeeds: it has an address
StaAssociated ==
    /\ wifi.sta = "connecting"
    /\ CommitWifi([WifiStep(wifi) EXCEPT
            !.sta = "connected",
            !.events = Append(@, "IP_EVENT_STA_GOT_IP")])

\* the attempt of the station fails
StaAttemptFailed ==
    /\ wifi.sta = "connecting"
    /\ CommitWifi([WifiStep(wifi) EXCEPT
            !.sta = "idle",
            !.events = Append(@, "WIFI_EVENT_STA_DISCONNECTED")])

\* the station loses the access point
StaLinkLost ==
    /\ wifi.sta = "connected"
    /\ CommitWifi([WifiStep(wifi) EXCEPT
            !.sta = "idle",
            !.events = Append(@, "WIFI_EVENT_STA_DISCONNECTED")])

NextWifi ==
    \/ WifiManagerInit
    \/ WifiManagerConnect
    \/ WifiManagerDisconnect
    \/ WifiConnectWoken
    \/ WifiConnectTimeout
    \/ WifiEvent
    \/ StaAssociated
    \/ StaAttemptFailed
    \/ StaLinkLost

SpecWifi == Init /\ [][NextWifi]_vars

\* ------------------------------------------- the ROS2 manager at work
\* One caller calls the ros2_manager_* functions in any order; the publish
\* task, the subscribe task and the timer service task run in between, in
\* any interleaving.

CommitRos(r) == Commit([St EXCEPT !.ros = r])

RosInit ==
    /\ ros.call = "none"
    /\ \E config \in {"NULL", "config"}, heap \in BOOLEAN :
        CommitRos(ros2_manager_init(RosStep(ros, "init"), config, heap))

RosDeinit ==
    /\ ros.call = "none"
    /\ CommitRos(ros2_manager_deinit(RosStep(ros, "deinit")))

RosStart ==
    /\ ros.call = "none"
    /\ \E created \in 0..2 :
        CommitRos(ros2_manager_start(RosStep(ros, "start"), created))

RosStop ==
    /\ ros.call = "none"
    /\ CommitRos(ros2_manager_stop(RosStep(ros, "stop")))

RosPublishImu ==
    /\ ros.call = "none"
    /\ ros.sends < MaxImu
    /\ \E imu_data \in {0, 1} :
        CommitRos(ros2_manager_publish_imu(
            [RosStep(ros, "publish_imu") EXCEPT !.imu_data = imu_data],
            imu_data))

\* the queue has room again while the caller waits in xQueueSend()
RosSendWoken ==
    /\ ros.call = "send"
    /\ Len(ros.imu_publish_queue) < QueueLength
    /\ CommitRos(ros2_manager_publish_imu_sent(RosStep(ros, "sent")))

\* the 100 ms of xQueueSend() pass with the queue full
RosSendTimeout ==
    /\ ros.call = "send"
    /\ Len(ros.imu_publish_queue) = QueueLength
    /\ CommitRos(ros2_manager_publish_imu_timeout(RosStep(ros, "timeout")))

PublishTaskWake ==
    /\ ros.publish_task = "waiting"
    /\ CommitRos(publish_task_wake(RosStep(ros, "publish_wake")))

PublishTaskReceive ==
    /\ ros.publish_task = "draining"
    /\ ros.imu_publish_queue # << >>
    /\ CommitRos(publish_task_receive(RosStep(ros, "receive")))

PublishTaskIdle ==
    /\ ros.publish_task = "draining"
    /\ ros.imu_publish_queue = << >>
    /\ CommitRos(publish_task_idle(RosStep(ros, "publish_idle")))

SubscribeTaskWake ==
    /\ ros.subscribe_task = "waiting"
    /\ CommitRos(subscribe_task_wake(RosStep(ros, "subscribe_wake")))

SubscribeTaskDone ==
    /\ ros.subscribe_task = "receiving"
    /\ CommitRos(subscribe_task_done(RosStep(ros, "subscribe_done")))

ConnectionTimerExpire ==
    /\ ros.connection_timer = "active"
    /\ ~ros.callback
    /\ CommitRos(connection_timer_expire(RosStep(ros, "expire")))

ConnectionTimerCallback ==
    /\ ros.callback
    /\ CommitRos(connection_timer_callback(RosStep(ros, "callback")))

NextRos ==
    \/ RosInit
    \/ RosDeinit
    \/ RosStart
    \/ RosStop
    \/ RosPublishImu
    \/ RosSendWoken
    \/ RosSendTimeout
    \/ PublishTaskWake
    \/ PublishTaskReceive
    \/ PublishTaskIdle
    \/ SubscribeTaskWake
    \/ SubscribeTaskDone
    \/ ConnectionTimerExpire
    \/ ConnectionTimerCallback

SpecRos == Init /\ [][NextRos]_vars

\* --------------------------------------------- the wait loops at work
\* One step of ROS2Test or WiFiTest that holds a wait loop runs from its
\* first line to its return, on a clock that starts at zero or shortly
\* before the millisecond count passes 2^32, while the WiFi station, the
\* event loop, the subscribe task and the timer service task do their part.

Loops == {"ros2_connection", "image", "wifi_connection", "disconnect"}

NowSamples == {Zero32, [hi |-> Half - 1, lo |-> Half - 5000]}

\* the manager after initializeROS2Manager()
RosInitialized == ros2_manager_init(NoRos, "config", TRUE)

\* the manager after a connection step, connected
RosConnected ==
    connection_timer_callback(
        connection_timer_expire(ros2_manager_start(RosInitialized, 2)))

\* the WiFi manager after wifi_manager_connect() timed out with the
\* station still trying
WifiConnecting(max_retry) ==
    LET w == wifi_manager_connect(wifi_manager_init(NoWifi), max_retry)
    IN  wifi_manager_connect_timeout(
            wifi_event_handler([w EXCEPT !.events = Tail(@)], Head(w.events)))

\* the WiFi manager after wifi_manager_connect() returned ESP_OK
WifiConnected(max_retry) ==
    LET w == wifi_manager_connect(wifi_manager_init(NoWifi), max_retry)
        c == wifi_event_handler([w EXCEPT !.events = Tail(@)], Head(w.events))
    IN  wifi_manager_connect_bits(
            wifi_event_handler([c EXCEPT !.sta = "connected"],
                               "IP_EVENT_STA_GOT_IP"))

InitWait ==
    \E loop \in Loops, t0 \in NowSamples, expected \in ExpectedCounts,
       routed \in BOOLEAN, max_retry \in {0, MaxRetry}, linked \in BOOLEAN :
        /\ loop # "image" => expected = 5 /\ routed
        /\ loop \notin {"wifi_connection", "disconnect"}
                => max_retry = 0 /\ linked
        /\ loop = "disconnect" => linked
        /\ loop = "wifi_connection" => ~linked /\ max_retry = MaxRetry
        /\ Start([InitState EXCEPT
                !.wait = [NoWait EXCEPT
                    !.loop = loop,
                    !.now = t0,
                    !.expected_image_count_ = expected,
                    !.routed = routed],
                !.ros = CASE loop = "ros2_connection" -> RosInitialized
                          [] loop = "image" -> RosConnected
                          [] OTHER -> NoRos,
                !.wifi = CASE loop \notin {"wifi_connection", "disconnect"}
                                -> NoWifi
                           [] linked -> WifiStep(WifiConnected(max_retry))
                           [] OTHER -> WifiStep(WifiConnecting(max_retry))])

StepTestROS2Connection ==
    /\ wait.pc = "idle"
    /\ wait.loop = "ros2_connection"
    /\ \E created \in 0..2 : Commit(testROS2Connection(St, created))

StepTestImageSubscription ==
    /\ wait.pc = "idle"
    /\ wait.loop = "image"
    /\ Commit(testImageSubscription(St))

StepWaitForConnection ==
    /\ wait.pc = "idle"
    /\ wait.loop = "wifi_connection"
    /\ Commit([St EXCEPT !.wait = StartWaiting(@, WifiTimeoutMs)])

StepTestReconnection ==
    /\ wait.pc = "idle"
    /\ wait.loop = "disconnect"
    /\ Commit(testReconnection(St))

MockLoop ==
    /\ wait.pc = "mock"
    /\ Commit(mockLoop(St))

WaitCheck ==
    /\ wait.pc = "check"
    /\ Commit(waitCheck(St))

WaitSleep ==
    /\ wait.pc = "sleep"
    /\ Commit(waitSleep(St))

Reconnected ==
    /\ wait.pc = "reconnect"
    /\ wifi.call = "none"
    /\ Commit(reconnected(St))

\* the subscribe task hands a simulated image to the image callback
ImageArrives ==
    /\ wait.loop = "image"
    /\ wait.pc \in {"mock", "check", "sleep"}
    /\ wait.routed
    /\ wait.messages_received_ < MaxImages
    /\ Commit([St EXCEPT !.wait.messages_received_ = @ + 1])

StepNext ==
    \/ StepTestROS2Connection
    \/ StepTestImageSubscription
    \/ StepWaitForConnection
    \/ StepTestReconnection
    \/ MockLoop
    \/ WaitCheck
    \/ WaitSleep
    \/ Reconnected

NextWait ==
    \/ StepNext
    \/ ImageArrives
    \/ WifiEvent
    \/ StaAssociated
    \/ StaAttemptFailed
    \/ StaLinkLost

SpecWait == InitWait /\ [][NextWait]_vars

\* the task of the step is scheduled again and again
SpecWaitLive == InitWait /\ [][NextWait]_vars /\ WF_vars(StepNext)

\* ------------------------------------- the instance_ pointer at work
\* Objects of one class are constructed at any time and run one at a time,
\* each any number of times up to MaxExec; the manager raises events at
\* any time.

CommitCallbacks(c) == Commit([St EXCEPT !.callbacks = c])

ConstructTest ==
    \E o \in 1..MaxObjects :
        /\ o = Cardinality(callbacks.live) + 1
        /\ CommitCallbacks(TestConstructor(callbacks, o))

SetupTest ==
    \E o \in callbacks.live :
        /\ callbacks.running = 0
        /\ callbacks.runs[o] < MaxExec
        /\ CommitCallbacks(TestSetup(callbacks, o))

TeardownTest ==
    /\ callbacks.running # 0
    /\ CommitCallbacks(TestTeardown(callbacks, callbacks.running))

RaiseEvent ==
    /\ callbacks.raised < MaxEvents
    /\ CommitCallbacks(StaticCallback(callbacks))

NextCallbacks ==
    \/ ConstructTest
    \/ SetupTest
    \/ TeardownTest
    \/ RaiseEvent

SpecCallbacks == Init /\ [][NextCallbacks]_vars

\* ------------------------------------------------------------ properties

Count(seq, x) == Cardinality({k \in 1..Len(seq) : seq[k] = x})

\* A run() has returned and nothing has been dropped of what it did.
RunReturned == last_run.value # "none"

LastStatus == tests_[last_run.test].status_

\* C1: whenever a run() in which setup() returned success has returned,
\* it has called teardown() exactly once, whether execute() succeeded or
\* failed; and no run() in progress has called teardown() twice.
C1_Cleanup ==
    /\ Count(calls, "teardown") <= 1
    /\ (RunReturned /\ last_run.rets.setup = "ESP_OK")
          => /\ Count(last_run.calls, "teardown") = 1
             /\ last_run.rets.teardown # "none"

\* a run() returned whose execute() failed and whose teardown() was called once
C1_Witness ==
    /\ RunReturned
    /\ last_run.rets.setup = "ESP_OK"
    /\ last_run.rets.execute = "ESP_FAIL"
    /\ Count(last_run.calls, "teardown") = 1

\* C2: whenever a run() in which setup() returned a failure has returned,
\* it has called neither execute() nor teardown(), it returned FAILED and
\* the status is FAILED with message "Setup phase failed".
C2_PhaseSkip ==
    (RunReturned /\ last_run.rets.setup # "ESP_OK")
        => /\ Count(last_run.calls, "execute") = 0
           /\ Count(last_run.calls, "teardown") = 0
           /\ last_run.rets.execute = "none"
           /\ last_run.rets.teardown = "none"
           /\ last_run.value = "FAILED"
           /\ LastStatus.result = "FAILED"
           /\ LastStatus.message = "Setup phase failed"

\* a run() returned whose setup() failed
C2_Witness ==
    /\ RunReturned
    /\ last_run.rets.setup = "ESP_FAIL"
    /\ last_run.calls = <<"updateStatus", "startTimer", "setup", "stopTimer", "updateStatus">>

FirstFailedPhase(r) ==
    IF r.setup # "ESP_OK" THEN "Setup phase failed"
    ELSE IF r.execute # "ESP_OK" THEN "Execute phase failed"
    ELSE "Teardown phase failed"

AllPhasesOk(r) ==
    r.setup = "ESP_OK" /\ r.execute = "ESP_OK" /\ r.teardown = "ESP_OK"

\* C3: a run() that has returned returned PASSED, with status PASSED, if
\* and only if setup(), execute() and teardown() all returned success;
\* otherwise it returned FAILED, with status FAILED and the message of
\* the first phase that failed.
C3_RunOutcome ==
    RunReturned
        => /\ last_run.value \in {"PASSED", "FAILED"}
           /\ (last_run.value = "PASSED") <=> AllPhasesOk(last_run.rets)
           /\ LastStatus.result = last_run.value
           /\ ~AllPhasesOk(last_run.rets)
                 => LastStatus.message = FirstFailedPhase(last_run.rets)

\* a run() returned whose teardown() alone failed
C3_Witness ==
    /\ RunReturned
    /\ last_run.rets.setup = "ESP_OK"
    /\ last_run.rets.execute = "ESP_OK"
    /\ last_run.rets.teardown = "ESP_FAIL"
    /\ LastStatus.message = "Teardown phase failed"

\* C4: whenever a run() whose execute() failed has returned, it returned
\* FAILED and the status is FAILED with message "Execute phase failed",
\* whatever the teardown() that followed returned.
C4_ExecuteFailure ==
    (RunReturned /\ last_run.rets.execute \notin {"ESP_OK", "none"})
        => /\ last_run.rets.teardown \in HookResults
           /\ last_run.value = "FAILED"
           /\ LastStatus.result = "FAILED"
           /\ LastStatus.message = "Execute phase failed"

\* a run() returned whose execute() failed and whose teardown() failed too
C4_Witness ==
    /\ RunReturned
    /\ last_run.rets.execute = "ESP_FAIL"
    /\ last_run.rets.teardown = "ESP_FAIL"

\* runSteps() of the running test is active or has just returned to run()
InSteps == pc \in {"step", "teardown"} /\ cur # 0

CurSteps == tests_[cur].test_steps_

InvokedIdx == {invoked[p].i : p \in 1..Len(invoked)}

\* C5: runSteps() invokes the bound steps in declaration order, none twice
\* and none skipped, and once the action of a critical step has returned a
\* failure that invocation is the last one: runSteps() has returned, with
\* that step's failure code.
C5_CriticalShortCircuit ==
    InSteps
        => /\ \A p \in 1..Len(invoked) :
                /\ invoked[p].i \in 1..Len(CurSteps)
                /\ CurSteps[invoked[p].i].bound
                /\ \A q \in 1..Len(invoked) : p < q => invoked[p].i < invoked[q].i
                /\ \A j \in 1..(invoked[p].i - 1) :
                        CurSteps[j].bound => j \in InvokedIdx
           /\ \A p \in 1..Len(invoked) :
                (invoked[p].r # "ESP_OK" /\ CurSteps[invoked[p].i].critical)
                    => /\ p = Len(invoked)
                       /\ pc = "teardown"
                       /\ steps_ret = invoked[p].r

\* [A(critical), B(critical, fails), C(critical)]: A and B invoked, C not,
\* and the failure code of B returned
C5_Witness ==
    /\ pc = "teardown"
    /\ cur # 0
    /\ CurSteps = <<CritStep, CritStep, CritStep>>
    /\ invoked = <<[i |-> 1, r |-> "ESP_OK"], [i |-> 2, r |-> "ESP_ERR_TIMEOUT"]>>
    /\ steps_ret = "ESP_ERR_TIMEOUT"

\* step j failed: its action returned a failure, or it has no action
StepFailedAt(j) ==
    \/ ~CurSteps[j].bound
    \/ \E p \in 1..Len(invoked) : invoked[p].i = j /\ invoked[p].r # "ESP_OK"

\* C6: when runSteps() has returned, it returned success if and only if
\* every bound step was invoked and no critical step failed, whatever the
\* non-critical steps returned; and the step after a failed non-critical
\* step was invoked.
C6_NonCriticalContinuation ==
    (InSteps /\ pc = "teardown")
        => /\ (steps_ret = "ESP_OK")
                <=> \A j \in 1..Len(CurSteps) :
                        /\ CurSteps[j].bound => j \in InvokedIdx
                        /\ CurSteps[j].critical => ~StepFailedAt(j)
           /\ \A p \in 1..Len(invoked) :
                LET j == invoked[p].i
                IN  (/\ invoked[p].r # "ESP_OK"
                     /\ ~CurSteps[j].critical
                     /\ j < Len(CurSteps)
                     /\ CurSteps[j + 1].bound)
                        => (j + 1) \in InvokedIdx

\* [A(non-critical, fails), B(critical, succeeds)]: both invoked, success
C6_Witness ==
    /\ pc = "teardown"
    /\ cur # 0
    /\ CurSteps = <<NonCritStep, CritStep>>
    /\ invoked = <<[i |-> 1, r |-> "ESP_FAIL"], [i |-> 2, r |-> "ESP_OK"]>>
    /\ steps_ret = "ESP_OK"

Batch == mode \in {"all", "matching"}

\* C7: in a batch mode with stop_on_first_failure set, the tests executed
\* are a prefix of the sequence iterated, a run() that returned other than
\* PASSED is the last one executed and ends the mode, the mode does not end
\* earlier than that; the test that failed has a terminal status and, if
\* its setup() succeeded, its teardown() was called; in the first run mode
\* of a Manager the tests not executed are still NOT_RUN.
C7_StopOnFirstFailure ==
    (Batch /\ stop_on_first_failure_)
        => /\ Len(executed) <= Len(queue)
           /\ \A k \in 1..Len(executed) : executed[k] = queue[k]
           /\ \A k \in 1..Len(returned) :
                returned[k] # "PASSED"
                    => /\ k = Len(executed)
                       /\ pc = "done"
                       /\ last_run.test = executed[k]
                       /\ tests_[executed[k]].status_.result = "FAILED"
                       /\ last_run.rets.setup = "ESP_OK"
                             => Count(last_run.calls, "teardown") = 1
           /\ pc = "done"
                => \/ Len(executed) = Len(queue)
                   \/ returned[Len(returned)] # "PASSED"
           /\ (pc = "done" /\ runs = 1)
                => \A i \in 1..Len(tests_) :
                       (\A k \in 1..Len(executed) : executed[k] # i)
                           => tests_[i].status_.result = "NOT_RUN"

\* [pass, fail, pass] with the flag set: two executed, the third NOT_RUN
C7_Witness ==
    /\ mode = "all"
    /\ stop_on_first_failure_
    /\ pc = "done"
    /\ Len(tests_) = 3
    /\ returned = <<"PASSED", "FAILED">>
    /\ tests_[3].status_.result = "NOT_RUN"

\* C8: with stop_on_first_failure unset, a batch mode that has returned
\* has executed every test of the sequence it iterates exactly once and in
\* order (runAllTests: the whole registry in registration order), and it
\* returned true if and only if every run() returned PASSED; runTest() on
\* a name that is found has executed that one test and returned true if
\* and only if its run() returned PASSED.
C8_RunEveryTest ==
    pc = "done"
        => /\ (Batch /\ ~stop_on_first_failure_)
                => /\ executed = queue
                   /\ Len(returned) = Len(executed)
                   /\ \A k \in 1..Len(queue) : \A l \in 1..Len(queue) :
                            k < l => queue[k] < queue[l]
                   /\ ret = (\A k \in 1..Len(returned) : returned[k] = "PASSED")
                   /\ \A k \in 1..Len(executed) :
                            tests_[executed[k]].status_.result = returned[k]
           /\ (mode = "all" /\ ~stop_on_first_failure_)
                => executed = [k \in 1..Len(tests_) |-> k]
           /\ (mode = "one" /\ queue # << >>)
                => /\ executed = queue
                   /\ Len(returned) = 1
                   /\ ret = (returned[1] = "PASSED")

\* runAllTests with the flag unset went on after a failure
C8_Witness ==
    /\ pc = "done"
    /\ mode = "all"
    /\ ~stop_on_first_failure_
    /\ returned = <<"FAILED", "PASSED", "FAILED">>
    /\ ret = FALSE

\* C9 as claimed: after a runAllTests() has returned, getOverallResult()
\* recomputed from the statuses equals overall_result_, for a registry of
\* any size, zero included.
C9_DualPathAgreement ==
    (pc = "done" /\ mode = "all")
        => getOverallResult(tests_) = overall_result_

\* what holds of the code: the two agree when the registry is not empty
C9_AgreementNonEmpty ==
    (pc = "done" /\ mode = "all" /\ Len(tests_) > 0)
        => getOverallResult(tests_) = overall_result_

\* the worst of a sequence of results: FAILED over TIMEOUT over PASSED
WorstOf(results) ==
    IF \E k \in 1..Len(results) : results[k] = "FAILED" THEN "FAILED"
    ELSE IF \E k \in 1..Len(results) : results[k] = "TIMEOUT" THEN "TIMEOUT"
    ELSE "PASSED"

\* C10: during a batch run overall_result_ is the worst of the results
\* handed to updateOverallResult() so far: PASSED before any, TIMEOUT once
\* a TIMEOUT was seen and no FAILED, FAILED from the first FAILED on
\* whatever follows.
C10_TieBreak ==
    (Batch /\ queue # << >>) => overall_result_ = WorstOf(applied)

\* a TIMEOUT handed over after a FAILED left FAILED recorded
C10_Witness ==
    /\ Batch
    /\ applied = <<"TIMEOUT", "FAILED", "TIMEOUT">>
    /\ overall_result_ = "FAILED"

\* C11: a runAllTests() that has returned on a Manager with no test
\* registered returned true, called run() on nothing and left
\* overall_result_ at SKIPPED.
C11_EmptyRegistry ==
    (pc = "done" /\ mode = "all" /\ Len(tests_) = 0)
        => /\ ret = TRUE
           /\ executed = << >>
           /\ returned = << >>
           /\ last_run = NoRun
           /\ overall_result_ = "SKIPPED"

\* runAllTests() has returned on the empty registry
C11_Witness ==
    /\ pc = "done"
    /\ mode = "all"
    /\ Len(tests_) = 0
    /\ ret = TRUE
    /\ overall_result_ = "SKIPPED"

\* Two character codes that are the same letter in either case
SameLetter(a, b) ==
    \/ a = b
    \/ (a >= 65 /\ a <= 90 /\ b = a + 32)
    \/ (b >= 65 /\ b <= 90 /\ a = b + 32)

\* text contains p as a substring, case disregarded
ContainsCI(text, p) ==
    \E off \in 0..(Len(text) - Len(p)) :
        \A k \in 1..Len(p) : SameLetter(text[off + k], p[k])

\* The tests of ts that a pattern stands for
SelectedIn(ts, pattern) ==
    {k \in 1..Len(ts) : pattern = <<42>> \/ ContainsCI(ts[k].name, pattern)}

Executed == {executed[k] : k \in 1..Len(executed)}

\* The claim of C12 as it stands: a runTestsMatching() that has returned
\* has executed all the tests its pattern stands for, each once, in
\* registration order, and no other.
C12_ExecutesAllMatching ==
    (pc = "done" /\ mode = "matching")
        => /\ Executed = SelectedIn(tests_, arg)
           /\ \A j, k \in 1..Len(executed) : j < k => executed[j] < executed[k]

\* C12: runTestsMatching(pattern) executes only tests whose name contains
\* the pattern as a substring, case disregarded ("*" standing for every
\* test), in registration order and leaving none of them out on the way;
\* when it has returned it has executed all of them, unless
\* stop_on_first_failure_ is set and an executed test did not pass, and
\* then it has executed none after the first that did not pass.
C12_PatternSelection ==
    mode = "matching"
        => /\ Executed \subseteq SelectedIn(tests_, arg)
           /\ \A j, k \in 1..Len(executed) : j < k => executed[j] < executed[k]
           /\ \A e \in Executed : \A m \in SelectedIn(tests_, arg) :
                  m < e => m \in Executed
           /\ (pc = "done" /\ (~stop_on_first_failure_
                               \/ \A k \in 1..Len(returned) : returned[k] = "PASSED"))
                  => SelectedIn(tests_, arg) \subseteq Executed
           /\ (pc = "done" /\ stop_on_first_failure_)
                  => \A k \in 1..(Len(returned) - 1) : returned[k] = "PASSED"

\* runTestsMatching("NO") has returned on <<PSRAM, BNO055, WiFi>>
\* having executed the second test only
C12_Witness ==
    /\ pc = "done"
    /\ mode = "matching"
    /\ arg = <<78, 79>>
    /\ Len(tests_) = 3
    /\ tests_[2].name = <<66, 78, 79, 48, 53, 53>>
    /\ executed = <<2>>

\* C13: a runTestsMatching(pattern) whose pattern stands for no
\* registered test returns true without calling run() and leaves every
\* test as it was; a runTest(name) that finds no test of that name
\* returns false.
C13_NoMatchVacuity ==
    [][/\ (Idle /\ mode' = "matching" /\ SelectedIn(tests_', arg') = {})
            => /\ pc' = "done"
               /\ ret' = TRUE
               /\ executed' = << >>
               /\ tests_' = tests_
       /\ (Idle /\ mode' = "one" /\ \A k \in 1..Len(tests_') : tests_'[k].name # arg')
            => /\ pc' = "done"
               /\ ret' = FALSE]_vars

\* runTestsMatching("zzz") has returned true on a registry in which a
\* test has run before
C13_Witness ==
    /\ pc = "done"
    /\ mode = "matching"
    /\ arg = <<122, 122, 122>>
    /\ ret = TRUE
    /\ executed = << >>
    /\ \E k \in 1..Len(tests_) : tests_[k].status_.result \in {"PASSED", "FAILED"}

\* The first test of that name, as a set
FirstNamed(ts, name) ==
    {k \in 1..Len(ts) : ts[k].name = name /\ \A j \in 1..(k - 1) : ts[j].name # name}

\* C14: a runTest(name) that finds no test of exactly that name returns
\* false without calling run() and leaves every test as it was; one that
\* finds a test calls run() on it once and on no other test, and returns
\* true exactly if that run() returned PASSED.
C14_Lookup ==
    /\ [](mode = "one"
            => \A k \in FirstNamed(tests_, arg) :
                  /\ executed = <<k>>
                  /\ pc = "done"
                        => /\ Len(returned) = 1
                           /\ ret = (returned[1] = "PASSED")
                           /\ last_run.test = k
                           /\ Count(last_run.calls, "setup") = 1)
    /\ [][(Idle /\ mode' = "one" /\ FirstNamed(tests_', arg') = {})
            => /\ pc' = "done"
               /\ ret' = FALSE
               /\ executed' = << >>
               /\ tests_' = tests_]_vars

\* runTest("bno055") has returned false on a registry that holds BNO055,
\* which has run before
C14_Witness ==
    /\ pc = "done"
    /\ mode = "one"
    /\ arg = <<98, 110, 111, 48, 53, 53>>
    /\ ret = FALSE
    /\ executed = << >>
    /\ \E k \in 1..Len(tests_) :
          /\ tests_[k].name = <<66, 78, 79, 48, 53, 53>>
          /\ tests_[k].status_.result \in {"PASSED", "FAILED"}

Results == {tests_[k].status_.result : k \in 1..Len(tests_)}

\* the overall result by the rule of precedence
ByStatuses ==
    IF "FAILED" \in Results THEN "FAILED"
    ELSE IF "TIMEOUT" \in Results THEN "TIMEOUT"
    ELSE IF Results \subseteq {"PASSED"} THEN "PASSED"
    ELSE "SKIPPED"

NumberIn(result) == Cardinality({k \in 1..Len(tests_) : tests_[k].status_.result = result})

\* C16: getStatistics() returns total_tests = the number of registered
\* tests and in passed_tests, failed_tests, skipped_tests, timeout_tests
\* the number of tests in that result; the four add up to at most
\* total_tests, and to total_tests exactly if no test is NOT_RUN or
\* RUNNING.
C16_Partition ==
    query.op = "getStatistics"
        => LET stats == query.value
               counted == stats.passed_tests + stats.failed_tests
                          + stats.skipped_tests + stats.timeout_tests
           IN  /\ stats.total_tests = Len(tests_)
               /\ stats.passed_tests = NumberIn("PASSED")
               /\ stats.failed_tests = NumberIn("FAILED")
               /\ stats.skipped_tests = NumberIn("SKIPPED")
               /\ stats.timeout_tests = NumberIn("TIMEOUT")
               /\ counted <= stats.total_tests
               /\ (counted = stats.total_tests)
                     <=> (Results \cap {"NOT_RUN", "RUNNING"} = {})

\* getStatistics() returned on a registry of a PASSED, a RUNNING and a
\* NOT_RUN test
C16_Witness ==
    /\ query.op = "getStatistics"
    /\ Len(tests_) = 3
    /\ tests_[1].status_.result = "PASSED"
    /\ tests_[2].status_.result = "RUNNING"
    /\ tests_[3].status_.result = "NOT_RUN"
    /\ query.value.passed_tests = 1
    /\ query.value.failed_tests = 0

\* The sums of the two halves of the durations
RECURSIVE SumHalves(_)
SumHalves(k) ==
    IF k = 0 THEN [hi |-> 0, lo |-> 0]
    ELSE LET rest == SumHalves(k - 1)
         IN  [hi |-> rest.hi + tests_[k].status_.duration_ms.hi,
              lo |-> rest.lo + tests_[k].status_.duration_ms.lo]

\* The sum of all duration_ms modulo 2^32
SumModulo ==
    LET sum == SumHalves(Len(tests_))
    IN  [hi |-> (sum.hi + (sum.lo \div Half)) % Half, lo |-> sum.lo % Half]

\* C17: getStatistics().total_duration_ms is the sum of the duration_ms
\* of all registered tests modulo 2^32, and success_rate is
\* passed_tests / total_tests * 100, and 0 when total_tests is 0.
C17_Consistency ==
    query.op = "getStatistics"
        => LET stats == query.value
           IN  /\ stats.total_duration_ms = SumModulo
               /\ IF Len(tests_) = 0
                  THEN stats.success_rate.num = 0
                  ELSE stats.success_rate.num * Len(tests_)
                         = NumberIn("PASSED") * 100 * stats.success_rate.den

\* getStatistics() returned on two PASSED tests and a FAILED one, the
\* sum of whose durations passes 2^32: the rate is 200 / 3
C17_Witness ==
    /\ query.op = "getStatistics"
    /\ Len(tests_) = 3
    /\ NumberIn("PASSED") = 2
    /\ NumberIn("FAILED") = 1
    /\ query.value.success_rate = [num |-> 200, den |-> 3]
    /\ tests_[1].status_.duration_ms = [hi |-> Half - 1, lo |-> Half - 1]
    /\ tests_[2].status_.duration_ms = ToU32(1500)
    /\ tests_[3].status_.duration_ms = Zero32
    /\ query.value.total_duration_ms = ToU32(1499)

Positions(seq, x) == {k \in 1..Len(seq) : seq[k] = x}

\* C18: a run() in progress has started its timer once and has not
\* stopped it more than once, and its status is RUNNING as long as the
\* timer has not been stopped; a run() that has returned, on whichever
\* path, has started the timer once and stopped it once, after the start
\* and before the one updateStatus() that wrote PASSED or FAILED.
C18_TimerOnce ==
    /\ pc \in {"setup", "step", "teardown"}
          => /\ Count(calls, "startTimer") = 1
             /\ Count(calls, "stopTimer") <= 1
             /\ Count(calls, "stopTimer") = 0
                   => tests_[cur].status_.result = "RUNNING"
    /\ RunReturned
          => /\ Count(last_run.calls, "startTimer") = 1
             /\ Count(last_run.calls, "stopTimer") = 1
             /\ Count(last_run.calls, "updateStatus") = 2
             /\ LastStatus.result \in {"PASSED", "FAILED"}
             /\ \A b \in Positions(last_run.calls, "startTimer") :
                \A e \in Positions(last_run.calls, "stopTimer") :
                    /\ b < e
                    /\ \E u \in Positions(last_run.calls, "updateStatus") : u < b
                    /\ \E u \in Positions(last_run.calls, "updateStatus") : e < u

\* a run() returned whose execute() failed: the timer was stopped before
\* FAILED was written and teardown() called
C18_Witness ==
    /\ RunReturned
    /\ last_run.rets.execute = "ESP_FAIL"
    /\ last_run.value = "FAILED"
    /\ last_run.calls = <<"updateStatus", "startTimer", "setup", "execute",
                          "stopTimer", "updateStatus", "teardown">>

\* C19: when a run() has returned, with PASSED or with FAILED from any
\* phase, duration_ms is the time that passed between startTimer() and
\* stopTimer(), the number of ticks times the tick period, also when the
\* 32-bit millisecond reading wrapped in between; the ticks that passed
\* after stopTimer() are not in it.
C19_Duration ==
    RunReturned
        => /\ LastStatus.result \in {"PASSED", "FAILED"}
           /\ LastStatus.duration_ms = ToU32(stopwatch.ticks * portTICK_PERIOD_MS)
           /\ U32Add(LastStatus.start_time, LastStatus.duration_ms)
                = U32Sub(Reading(St), ToU32(stopwatch.after * portTICK_PERIOD_MS))

\* a run() returned that was started at tick 2^32 - 1 and took two ticks of
\* 10 ms: the reading at the stop, 10, is below start_time, 2^32 - 10
C19_Witness ==
    /\ RunReturned
    /\ portTICK_PERIOD_MS = 10
    /\ LastStatus.start_time = [hi |-> Half - 1, lo |-> Half - 10]
    /\ stopwatch.ticks = 2
    /\ stopwatch.after = 0
    /\ LastStatus.duration_ms = ToU32(20)
    /\ Reading(St) = ToU32(10)

\* no critical step before step j has failed
ReachedStep(j) ==
    \A k \in 1..(j - 1) : CurSteps[k].critical => ~StepFailedAt(k)

\* C20: no action is invoked for a step that has none; no step after a
\* critical step without action is invoked; and when runSteps() has
\* returned, a critical step without action that it came to made it
\* return ESP_ERR_INVALID_ARG, which it returns for no other reason, while
\* after a non-critical step without action it went on to the steps that
\* follow.
C20_UnboundStep ==
    InSteps
        => /\ \A p \in 1..Len(invoked) : CurSteps[invoked[p].i].bound
           /\ \A j \in 1..Len(CurSteps) :
                (~CurSteps[j].bound /\ CurSteps[j].critical)
                    => \A i \in InvokedIdx : i < j
           /\ pc = "teardown"
                => /\ \A j \in 1..Len(CurSteps) :
                        (~CurSteps[j].bound /\ ReachedStep(j))
                            => IF CurSteps[j].critical
                               THEN steps_ret = "ESP_ERR_INVALID_ARG"
                               ELSE \A k \in (j + 1)..Len(CurSteps) :
                                        (CurSteps[k].bound /\ ReachedStep(k))
                                            => k \in InvokedIdx
                   /\ steps_ret = "ESP_ERR_INVALID_ARG"
                        => \E j \in 1..Len(CurSteps) :
                              /\ ~CurSteps[j].bound
                              /\ CurSteps[j].critical
                              /\ ReachedStep(j)

\* [A(non-critical, no action), B(critical, succeeds), C(critical, no
\* action)]: B alone invoked, ESP_ERR_INVALID_ARG returned
C20_Witness ==
    /\ pc = "teardown"
    /\ cur # 0
    /\ CurSteps = <<[critical |-> FALSE, bound |-> FALSE, timeout_ms |-> 5000],
                    CritStep,
                    [critical |-> TRUE, bound |-> FALSE, timeout_ms |-> 5000]>>
    /\ invoked = <<[i |-> 2, r |-> "ESP_OK"]>>
    /\ steps_ret = "ESP_ERR_INVALID_ARG"

\* what the action of step k returned in this runSteps(), ESP_OK if it
\* was not invoked
ScriptAt(k) ==
    IF k \in InvokedIdx
    THEN (CHOOSE e \in {invoked[p] : p \in 1..Len(invoked)} : e.i = k).r
    ELSE "ESP_OK"

\* runSteps() run to its return from s, the action of step k returning
\* script[k]
RECURSIVE RunToReturn(_, _)
RunToReturn(s, script) ==
    IF s.pc = "step"
    THEN RunToReturn(executeStep_returned(s, script[s.step_i]), script)
    ELSE s

\* C21: when runSteps() has returned, a runSteps() on the same steps with
\* any other timeout_ms values, whose actions return what they returned
\* here, invokes the same actions in the same order and returns the same
\* value; and what runSteps() returns is ESP_OK, ESP_ERR_INVALID_ARG or the
\* code the last action invoked returned.
C21_TimeoutIgnored ==
    (InSteps /\ pc = "teardown")
        => /\ \A tm \in [1..Len(CurSteps) -> Timeouts] :
                LET other == [k \in 1..Len(CurSteps) |->
                                [CurSteps[k] EXCEPT !.timeout_ms = tm[k]]]
                    rerun == RunToReturn(InExecute(other),
                                         [k \in 1..Len(CurSteps) |-> ScriptAt(k)])
                IN  /\ rerun.invoked = invoked
                    /\ rerun.steps_ret = steps_ret
           /\ \/ steps_ret \in {"ESP_OK", "ESP_ERR_INVALID_ARG"}
              \/ invoked # << >> /\ steps_ret = invoked[Len(invoked)].r

\* [A(critical, 0 ms, succeeds), B(critical, 5000 ms, times out)]: both
\* invoked, ESP_ERR_TIMEOUT returned
C21_Witness ==
    /\ pc = "teardown"
    /\ cur # 0
    /\ CurSteps = <<[critical |-> TRUE, bound |-> TRUE, timeout_ms |-> 0], CritStep>>
    /\ invoked = <<[i |-> 1, r |-> "ESP_OK"], [i |-> 2, r |-> "ESP_ERR_TIMEOUT"]>>
    /\ steps_ret = "ESP_ERR_TIMEOUT"

Phases == {"setup", "execute", "teardown"}

\* C22: a run() in progress has called none of setup(), execute() and
\* teardown() more than once and no step action of its runSteps() more
\* than once; a run() that has returned had called each of the three at
\* most once, whichever of them failed.
C22_NoRetry ==
    /\ \A ph \in Phases : Count(calls, ph) <= 1
    /\ \A p, q \in 1..Len(invoked) : invoked[p].i = invoked[q].i => p = q
    /\ RunReturned => \A ph \in Phases : Count(last_run.calls, ph) <= 1

\* a run() returned in which the action of the first step and teardown()
\* both failed: each phase was called once
C22_Witness ==
    /\ RunReturned
    /\ last_run.rets = [setup |-> "ESP_OK", execute |-> "ESP_FAIL", teardown |-> "ESP_FAIL"]
    /\ \A ph \in Phases : Count(last_run.calls, ph) = 1

Running == {k \in 1..Len(tests_) : tests_[k].status_.result = "RUNNING"}

InHook == pc \in {"setup", "step", "teardown"}

\* the calls of the phases among cs, in order
PhaseCalls(cs) == SelectSeq(cs, LAMBDA c : c \in Phases)

\* C23: at most one test is RUNNING, and only the one whose run() is
\* active; while the run() of a test is active every run() called before it
\* in this run mode has returned, and none is active when the run mode has
\* returned; the phases a run() has called are a prefix of setup, execute,
\* teardown, and the one called last is the one that is active.
C23_Sequential ==
    /\ Cardinality(Running) <= 1
    /\ InHook => Running \subseteq {cur}
    /\ Idle => Running = {}
    /\ InHook => /\ Len(executed) = Len(returned) + 1
                 /\ executed[Len(executed)] = cur
    /\ pc = "done" => Len(executed) = Len(returned)
    /\ PhaseCalls(calls) \in {<< >>, <<"setup">>, <<"setup", "execute">>,
                              <<"setup", "execute", "teardown">>}
    /\ pc = "setup" => PhaseCalls(calls) = <<"setup">>
    /\ pc = "step" => PhaseCalls(calls) = <<"setup", "execute">>
    /\ pc = "teardown" => PhaseCalls(calls) = <<"setup", "execute", "teardown">>
    /\ RunReturned
          => PhaseCalls(last_run.calls)
                \in {<<"setup">>, <<"setup", "execute", "teardown">>}

\* the third test of a batch is in its setup(): the two before it have
\* returned and it alone is RUNNING
C23_Witness ==
    /\ Batch
    /\ pc = "setup"
    /\ executed = <<1, 2, 3>>
    /\ Len(returned) = 2
    /\ Running = {3}

\* C24: a run() that has returned has left a status whose result is the
\* value it returned, PASSED or FAILED, with a message; when the action of
\* a critical step has failed, execute() has returned that failure and
\* the status is FAILED; a run() whose execute() failed returned FAILED;
\* and a run mode in which a run() returned other than PASSED returns
\* false.
C24_Propagation ==
    /\ RunReturned
          => /\ LastStatus.result = last_run.value
             /\ last_run.value \in {"PASSED", "FAILED"}
             /\ LastStatus.message # ""
             /\ last_run.rets.execute \notin {"ESP_OK", "none"}
                   => last_run.value = "FAILED"
    /\ (pc = "teardown" /\ cur # 0)
          => \A p \in 1..Len(invoked) :
                (invoked[p].r # "ESP_OK" /\ CurSteps[invoked[p].i].critical)
                    => /\ rets.execute = invoked[p].r
                       /\ tests_[cur].status_.result = "FAILED"
    /\ (pc = "done" /\ \E k \in 1..Len(returned) : returned[k] # "PASSED")
          => ret = FALSE

\* runAllTests() returned false on two tests: the first passed, the
\* critical step of the second failed
C24_Witness ==
    /\ pc = "done"
    /\ mode = "all"
    /\ ret = FALSE
    /\ returned = <<"PASSED", "FAILED">>
    /\ last_run.test = 2
    /\ last_run.rets.execute = "ESP_FAIL"
    /\ tests_[2].status_.result = "FAILED"
    /\ tests_[2].status_.message = "Execute phase failed"

\* C25: a test is registered with result NOT_RUN; its result changes only
\* to RUNNING, from NOT_RUN, PASSED or FAILED, when its run() starts, and
\* from RUNNING to PASSED or FAILED while its run() is active; no result
\* is ever TIMEOUT or SKIPPED, and none is RUNNING when no run mode is in
\* progress.
C25_StatusMachine ==
    /\ [](/\ \A k \in 1..Len(tests_) :
                tests_[k].status_.result \in {"NOT_RUN", "RUNNING", "PASSED", "FAILED"}
          /\ Idle => \A k \in 1..Len(tests_) :
                tests_[k].status_.result \in {"NOT_RUN", "PASSED", "FAILED"})
    /\ [][/\ \A k \in 1..Len(tests_) :
                LET a == tests_[k].status_.result
                    b == tests_'[k].status_.result
                IN  \/ a = b
                    \/ /\ a \in {"NOT_RUN", "PASSED", "FAILED"}
                       /\ b = "RUNNING"
                       /\ cur' = k
                       /\ pc' = "setup"
                    \/ /\ a = "RUNNING"
                       /\ b \in {"PASSED", "FAILED"}
                       /\ cur = k
                       /\ InHook
          /\ \A k \in (Len(tests_) + 1)..Len(tests_') :
                tests_'[k].status_.result = "NOT_RUN"]_vars

\* a test that had passed is run again and is in its setup(), next to
\* one that failed and one never run
C25_Witness ==
    /\ pc = "setup"
    /\ runs = 2
    /\ Len(tests_) = 3
    /\ tests_[cur].status_.result = "RUNNING"
    /\ tests_[cur].status_.duration_ms = Zero32
    /\ Len(tests_[cur].test_steps_) > 0
    /\ \E k \in 1..Len(tests_) : tests_[k].status_.result = "FAILED"
    /\ \E k \in 1..Len(tests_) : tests_[k].status_.result = "NOT_RUN"

\* C26: as long as no run mode has been invoked, overall_result_ is
\* NOT_RUN, whatever was registered, set, queried or printed.
C26_NotRunBeforeFirstRun ==
    BeforeFirstRun => overall_result_ = "NOT_RUN"

\* three tests registered, the three setters called with values other
\* than the defaults, and the summary printed; no run mode yet
C26_Witness ==
    /\ runs = 0
    /\ Len(tests_) = 3
    /\ stop_on_first_failure_
    /\ parallel_execution_
    /\ test_timeout_ms_ = 0
    /\ query.op = "printTestSummary"
    /\ query.value.overall = "SKIPPED"
    /\ overall_result_ = "NOT_RUN"

QueryOps ==
    {"getStatistics", "getOverallResult", "getTestNames", "getTest",
     "printTestResults", "printTestSummary"}

\* what the query or report made last returns or logs when it is made
\* again now
AnswerNow ==
    CASE query.op = "getStatistics" -> getStatistics(tests_)
      [] query.op = "getOverallResult" -> getOverallResult(tests_)
      [] query.op = "getTestNames" -> getTestNames(tests_)
      [] query.op = "getTest" ->
            [name |-> query.value.name,
             test |-> getTest(tests_, query.value.name)]
      [] query.op = "printTestResults" -> printTestResults(tests_)
      [] query.op = "printTestSummary" -> printTestSummary(tests_)

\* everything but the record of the latest query
Frame == [St EXCEPT !.query = NoQuery]

\* C27: a call of getStatistics(), getOverallResult(), getTestNames(),
\* getTest(), printTestResults() or printTestSummary() changes nothing of
\* the registry, of any test's status and steps, or of the Manager's
\* fields; and the value the latest of them returned is the value the
\* same call returns now, however many of them were made since a run
\* mode or a configuration call.
C27_QueriesFrame ==
    /\ [](query.op \in QueryOps => query.value = AnswerNow)
    /\ [][(query' # query /\ query'.op \in QueryOps) => Frame' = Frame]_vars

\* after a run of three tests in which one passed and one failed, the
\* results are printed: the lines show what the statuses hold
C27_Witness ==
    /\ pc = "done"
    /\ runs = 1
    /\ Len(tests_) = 3
    /\ query.op = "printTestResults"
    /\ \E j, k \in 1..3 :
        /\ query.value[j].result = "PASSED"
        /\ query.value[k].result = "FAILED"
        /\ tests_[k].status_.result = "FAILED"
    /\ overall_result_ = "FAILED"

\* C28: two Managers given the same tests, the same stop flag, the same
\* run mode and argument and the same results of every hook and step
\* action, and any values of parallel_execution_, agree at every moment
\* in everything but that flag: the tests run() was invoked on and their
\* order, the calls each run() made, the step actions invoked, every
\* status, overall_result_, what the run mode returned and what the
\* queries return.
C28_ParallelNoEffect ==
    [Left EXCEPT !.parallel_execution_ = twin.parallel_execution_] = twin

\* a batch of three tests has returned in both Managers, one of them with
\* parallel execution set and the other without, with a test that passed
\* and one that failed, and the statistics have been asked for
C28_Witness ==
    /\ parallel_execution_ # twin.parallel_execution_
    /\ pc = "done"
    /\ mode \in {"all", "matching"}
    /\ Len(executed) = 3
    /\ \E j, k \in 1..3 :
        /\ tests_[j].status_.result = "PASSED"
        /\ tests_[k].status_.result = "FAILED"
    /\ query.op = "getStatistics"
    /\ twin.query.value.failed_tests >= 1

\* the tests registered under the name
Named(ts, name) == {k \in 1..Len(ts) : ts[k].name = name}

\* C29: when two or more registered tests have the name runTest() is
\* called with, run() is invoked on exactly one test, the one of them
\* registered first, and from the call of runTest() to its return every
\* other test, of that name or not, is left as it was.
C29_FirstOfDuplicates ==
    /\ []((mode = "one" /\ Cardinality(Named(tests_, arg)) >= 2)
            => /\ Len(executed) = 1
               /\ executed[1] \in Named(tests_, arg)
               /\ \A k \in Named(tests_, arg) : executed[1] <= k
               /\ cur = executed[1])
    /\ [][(mode' = "one" /\ Cardinality(Named(tests_', arg')) >= 2)
            => /\ Len(tests_') = Len(tests_)
               /\ \A k \in 1..Len(tests_) :
                    k \notin FirstNamed(tests_', arg') => tests_'[k] = tests_[k]]_vars

\* three tests of one name; the second and the third have run and failed
\* and passed in a batch before; runTest() of the name has returned after
\* the first passed, and the other two still hold what they held
C29_Witness ==
    /\ pc = "done"
    /\ mode = "one"
    /\ Len(tests_) = 3
    /\ Named(tests_, arg) = {1, 2, 3}
    /\ executed = <<1>>
    /\ ret = TRUE
    /\ tests_[1].status_.result = "PASSED"
    /\ tests_[2].status_.result = "FAILED"
    /\ tests_[3].status_.result = "NOT_RUN"

\* m copies of list, one after the other
RECURSIVE Copies(_, _)
Copies(list, m) == IF m = 0 THEN << >> ELSE list \o Copies(list, m - 1)

\* no action invoked by the current runSteps() for a critical step failed
NoCriticalFailure ==
    \A p \in 1..Len(invoked) :
        CurSteps[invoked[p].i].critical => invoked[p].r = "ESP_OK"

C39_RunTestKeepsOverall ==
    [][/\ mode' = "one" => overall_result_' = overall_result_
       /\ (mode' = "matching" /\ queue' = << >>)
            => overall_result_' = overall_result_
       /\ overall_result_' # overall_result_
            => \/ mode' = "all"
               \/ mode' = "matching" /\ queue' # << >>]_vars

\* after a matching batch that passed, runTest() of another test has
\* returned false, its test FAILED: overall_result_ is still PASSED
C39_Witness ==
    /\ pc = "done"
    /\ mode = "one"
    /\ ret = FALSE
    /\ executed # << >>
    /\ tests_[executed[1]].status_.result = "FAILED"
    /\ overall_result_ = "PASSED"

\* C37: retry_count never exceeds max_retry; a disconnect event handled
\* while retry_count < max_retry makes the handler call esp_wifi_connect()
\* once and add one to retry_count, without setting a bit; a disconnect
\* event handled at retry_count = max_retry sets the fail bit and the
\* status FAILED, calls esp_wifi_connect() not at all and leaves
\* retry_count; a got-IP event sets retry_count to 0.
C37_RetryBound ==
    /\ [](wifi.retry_count <= wifi.max_retry)
    /\ [][/\ wifi'.ev = "WIFI_EVENT_STA_DISCONNECTED"
                => IF wifi.retry_count < wifi.max_retry
                   THEN /\ wifi'.retry_count = wifi.retry_count + 1
                        /\ wifi'.esp_wifi_connect = 1
                        /\ wifi'.bits = wifi.bits
                   ELSE /\ wifi'.retry_count = wifi.retry_count
                        /\ wifi'.esp_wifi_connect = 0
                        /\ "WIFI_FAIL_BIT" \in wifi'.bits
                        /\ wifi'.current_status = "WIFI_STATUS_FAILED"
          /\ wifi'.ev = "IP_EVENT_STA_GOT_IP" => wifi'.retry_count = 0]_vars

\* in a connect call with max_retry = 2 the third disconnect event has
\* been handled: two retries made, the fail bit set
C37_Witness ==
    /\ wifi.call = "connect"
    /\ wifi.max_retry = 2
    /\ wifi.retry_count = 2
    /\ wifi.ev = "WIFI_EVENT_STA_DISCONNECTED"
    /\ wifi.esp_wifi_connect = 0
    /\ wifi.exhausted
    /\ wifi.bits = {"WIFI_FAIL_BIT"}
    /\ wifi.current_status = "WIFI_STATUS_FAILED"

\* a wifi_manager_connect() call has returned and nothing was called since
ConnectReturned ==
    wifi.op = "connect" /\ wifi.call = "none" /\ wifi.ret # "none"

\* C32: a wifi_manager_connect() that has returned ESP_OK has had a
\* got-IP event delivered after it began, one that has returned
\* ESP_ERR_WIFI_CONN has had its own retries exhausted, and any other
\* call of an initialized manager has returned ESP_ERR_TIMEOUT.
C32_OwnAttemptOnly ==
    (ConnectReturned /\ wifi.wifi_manager_initialized)
        => /\ wifi.ret \in {"ESP_OK", "ESP_ERR_WIFI_CONN", "ESP_ERR_TIMEOUT"}
           /\ wifi.ret = "ESP_OK" => wifi.got_ip
           /\ wifi.ret = "ESP_ERR_WIFI_CONN" => wifi.exhausted
           /\ wifi.ret = "ESP_ERR_TIMEOUT" => ~wifi.got_ip /\ ~wifi.exhausted

\* C33: from the return of a wifi_manager_disconnect() with ESP_OK to the
\* next call of wifi_manager_connect() the status is DISCONNECTED, the
\* manager is not connected and the station makes no attempt.
C33_DisconnectSticks ==
    wifi.disconnected
        => /\ wifi.current_status = "WIFI_STATUS_DISCONNECTED"
           /\ ~wifi_manager_is_connected(wifi)
           /\ wifi.sta \notin {"connecting", "connected"}

\* C35: a manager that is not started is not connected, whatever the
\* caller, the two tasks and the timer callback have done in whatever order.
C35_StoppedNotConnected ==
    ~ros.ros2_manager_started => ~ros2_manager_is_connected(ros)

\* C36: ros2_manager_publish_imu() puts its message at the back of the
\* queue only when the manager is initialized and started, the argument is
\* not null and the queue has room before the wait is over; otherwise it
\* returns ESP_ERR_INVALID_STATE, ESP_ERR_INVALID_ARG or, with
\* publish_errors one higher, ESP_ERR_TIMEOUT, and the queue is as it was.
\* The queue never holds more than QueueLength messages, and the publish
\* task takes the oldest message, and only while the manager is connected.
C36_PublishQueue ==
    /\ [](Len(ros.imu_publish_queue) <= QueueLength)
    /\ [][/\ ros'.ev = "publish_imu" =>
                IF ~(ros.ros2_manager_initialized /\ ros.ros2_manager_started)
                THEN /\ ros'.ret = "ESP_ERR_INVALID_STATE"
                     /\ ros'.imu_publish_queue = ros.imu_publish_queue
                ELSE IF ros'.imu_data = 0
                THEN /\ ros'.ret = "ESP_ERR_INVALID_ARG"
                     /\ ros'.imu_publish_queue = ros.imu_publish_queue
                ELSE IF Len(ros.imu_publish_queue) < QueueLength
                THEN /\ ros'.ret = "ESP_OK"
                     /\ ros'.imu_publish_queue
                            = Append(ros.imu_publish_queue, ros'.imu_data)
                ELSE /\ ros'.call = "send"
                     /\ ros'.imu_publish_queue = ros.imu_publish_queue
          /\ ros'.ev = "sent" =>
                /\ Len(ros.imu_publish_queue) < QueueLength
                /\ ros'.ret = "ESP_OK"
                /\ ros'.imu_publish_queue
                        = Append(ros.imu_publish_queue, ros.imu_data)
          /\ ros'.ev = "timeout" =>
                /\ ros'.ret = "ESP_ERR_TIMEOUT"
                /\ ros'.publish_errors = ros.publish_errors + 1
                /\ ros'.imu_publish_queue = ros.imu_publish_queue
          /\ ros'.ev = "receive" =>
                /\ ros2_manager_is_connected(ros)
                /\ ros'.imu_msg = Head(ros.imu_publish_queue)
                /\ ros'.imu_publish_queue = Tail(ros.imu_publish_queue)
          /\ ros'.imu_publish_queue # ros.imu_publish_queue =>
                ros'.ev \in {"publish_imu", "sent", "receive", "deinit"}]_vars

C36_Witness ==
    /\ ros.ev = "timeout"
    /\ ros.ret = "ESP_ERR_TIMEOUT"
    /\ ros.publish_errors = 1
    /\ Len(ros.imu_publish_queue) = QueueLength
    /\ ros.imu_data = QueueLength + 1

\* C31: in the "Test ROS2 connection" step of a default ROS2Test, after
\* ros2_manager_start() returned ESP_OK, waitForConnection() sees the
\* manager connected before its deadline and the step returns ESP_OK.
C31_MockConnects ==
    (wait.loop = "ros2_connection" /\ wait.pc = "done"
        /\ ros.ros2_manager_started)
        => wait.ret = "ESP_OK" /\ ~wait.expired

\* the loop of the step was left through its deadline, not before the
\* timeout had passed and at the first poll after it
TimedOut ==
    /\ wait.pc = "done"
    /\ wait.expired
    /\ wait.waited > wait.timeout
    /\ wait.waited <= wait.timeout + PollMs

Routing ==
    /\ callbacks'.ev = "constructor" =>
            callbacks'.instance_ = callbacks'.latest
    /\ callbacks'.ev = "teardown" => callbacks'.instance_ = 0
    /\ callbacks'.ev \notin {"constructor", "teardown"} =>
            callbacks'.instance_ = callbacks.instance_
    /\ callbacks'.ev = "event" =>
            \A o \in 1..MaxObjects :
                callbacks'.counters[o] =
                    IF o = callbacks.instance_
                    THEN callbacks.counters[o] + 1
                    ELSE callbacks.counters[o]
    /\ (callbacks'.ev = "event" /\ Cardinality(callbacks.live) = 2) =>
            \A o \in 1..MaxObjects :
                callbacks'.counters[o] # callbacks.counters[o]
                    => o = callbacks.latest

\* C38 as stated: Routing, and no event raised after a teardown() has
\* returned changes a counter of any object.
C38_SingletonRoutingAsStated ==
    [][/\ Routing
       /\ (callbacks'.ev = "event" /\ callbacks.torn) =>
                callbacks'.counters = callbacks.counters]_vars

\* C38: Routing, and no event raised after a teardown() has returned and
\* before the next constructor runs changes a counter of any object, the
\* events of a second run of the same object among them.
C38_SingletonRouting ==
    [][/\ Routing
       /\ (callbacks'.ev = "event" /\ callbacks.cleared) =>
                callbacks'.counters = callbacks.counters]_vars

C38_Witness ==
    /\ callbacks.ev = "event"
    /\ callbacks.live = {1, 2}
    /\ callbacks.running = 2
    /\ callbacks.runs[2] = 2
    /\ callbacks.cleared
    /\ callbacks.raised = 3
    /\ \A o \in 1..MaxObjects : callbacks.counters[o] = 0

====
